---- MODULE Spec2Model ----
(***************************************************************************)
(* Model of the bank-consolidator import pipeline (src/app.js):            *)
(* column mapping, date normalisation, the transaction rule engine, the    *)
(* import loop of processUploadedFiles and the bulk re-application of      *)
(* rules.  Strings are sequences of one-character strings, so trimming,    *)
(* splitting, parsing and regular-expression tests are computed.           *)
(***************************************************************************)
EXTENDS Integers, Sequences, FiniteSets, TLC

(***************************************************************************)
(* JavaScript values: undefined, null, or a string.                        *)
(***************************************************************************)
Undefined == [t |-> "undefined", s |-> <<>>]
Null == [t |-> "null", s |-> <<>>]
Str(x) == [t |-> "string", s |-> x]
IsStr(v) == v.t = "string"
\* JavaScript truthiness of an undefined / null / string value
Truthy(v) == v.t = "string" /\ v.s # <<>>

(***************************************************************************)
(* Characters.                                                             *)
(***************************************************************************)
DigitSeq == <<"0", "1", "2", "3", "4", "5", "6", "7", "8", "9">>
UpperSeq == <<"A", "B", "C", "D", "E", "F", "G", "H", "I", "J", "K", "L", "M",
              "N", "O", "P", "Q", "R", "S", "T", "U", "V", "W", "X", "Y", "Z">>
LowerSeq == <<"a", "b", "c", "d", "e", "f", "g", "h", "i", "j", "k", "l", "m",
              "n", "o", "p", "q", "r", "s", "t", "u", "v", "w", "x", "y", "z">>
Range(f) == {f[i] : i \in DOMAIN f}
IsDigit(c) == c \in Range(DigitSeq)
IsLetter(c) == c \in Range(UpperSeq) \cup Range(LowerSeq)
\* the class \w of a JavaScript regular expression
IsWordChar(c) == IsDigit(c) \/ IsLetter(c) \/ c = "_"
IsSpace(c) == c \in {" ", "\t", "\n", "\r"}
DigitVal(c) == (CHOOSE i \in DOMAIN DigitSeq : DigitSeq[i] = c) - 1
ToLowerChar(c) ==
    IF c \in Range(UpperSeq)
    THEN LowerSeq[CHOOSE i \in DOMAIN UpperSeq : UpperSeq[i] = c]
    ELSE c
ToLowerCase(s) == [i \in DOMAIN s |-> ToLowerChar(s[i])]
AllDigits(s) == \A i \in DOMAIN s : IsDigit(s[i])
AllLetters(s) == \A i \in DOMAIN s : IsLetter(s[i])
Tail2(s, n) == SubSeq(s, n, Len(s))

(***************************************************************************)
(* String.prototype.trim, split, padStart and String(number).              *)
(***************************************************************************)
RECURSIVE TrimLeft(_)
TrimLeft(s) == IF s # <<>> /\ IsSpace(Head(s)) THEN TrimLeft(Tail(s)) ELSE s
RECURSIVE TrimRight(_)
TrimRight(s) ==
    IF s # <<>> /\ IsSpace(s[Len(s)]) THEN TrimRight(SubSeq(s, 1, Len(s) - 1)) ELSE s
Trim(s) == TrimRight(TrimLeft(s))

Includes(s, c) == \E i \in DOMAIN s : s[i] = c
RECURSIVE Split(_, _)
Split(s, c) ==
    IF ~Includes(s, c) THEN <<s>>
    ELSE LET i == CHOOSE k \in DOMAIN s : s[k] = c /\ \A j \in 1..(k - 1) : s[j] # c
         IN <<SubSeq(s, 1, i - 1)>> \o Split(Tail2(s, i + 1), c)

RECURSIVE NatToString(_)
NatToString(n) ==
    IF n < 10 THEN <<DigitSeq[n + 1]>>
    ELSE NatToString(n \div 10) \o <<DigitSeq[(n % 10) + 1]>>
NumToString(n) == IF n < 0 THEN <<"-">> \o NatToString(0 - n) ELSE NatToString(n)
PadStart2(s) == IF Len(s) >= 2 THEN s ELSE IF Len(s) = 1 THEN <<"0">> \o s ELSE <<"0", "0">>

(***************************************************************************)
(* parseInt(s, 10): leading white space, an optional sign, then the        *)
(* longest prefix of digits; NaN when there is no digit.                   *)
(***************************************************************************)
NaN == [nan |-> TRUE, v |-> 0]
Num(n) == [nan |-> FALSE, v |-> n]
RECURSIVE DigitPrefix(_)
DigitPrefix(s) ==
    IF s # <<>> /\ IsDigit(Head(s)) THEN <<Head(s)>> \o DigitPrefix(Tail(s)) ELSE <<>>
RECURSIVE DigitsValue(_)
DigitsValue(d) ==
    IF d = <<>> THEN 0
    ELSE DigitsValue(SubSeq(d, 1, Len(d) - 1)) * 10 + DigitVal(d[Len(d)])
ParseInt(s) ==
    LET t == TrimLeft(s)
        neg == t # <<>> /\ Head(t) = "-"
        u == IF t # <<>> /\ Head(t) \in {"-", "+"} THEN Tail(t) ELSE t
        d == DigitPrefix(u)
    IN IF d = <<>> THEN NaN
       ELSE Num(IF neg THEN 0 - DigitsValue(d) ELSE DigitsValue(d))
\* !x for the result of parseInt: NaN and 0 are falsy
Falsy(n) == n.nan \/ n.v = 0

(***************************************************************************)
(* parseFloat on the decimal notation of bank exports: white space, an     *)
(* optional sign, digits, an optional fraction.  A number is held in       *)
(* hundredths (the first two fraction digits); exponents are not in the    *)
(* input alphabet.  NaN when no digit is read.                             *)
(***************************************************************************)
ParseFloat(s) ==
    LET t == TrimLeft(s)
        neg == t # <<>> /\ Head(t) = "-"
        u == IF t # <<>> /\ Head(t) \in {"-", "+"} THEN Tail(t) ELSE t
        ip == DigitPrefix(u)
        r == Tail2(u, Len(ip) + 1)
        fp == IF r # <<>> /\ Head(r) = "." THEN DigitPrefix(Tail(r)) ELSE <<>>
        f2 == SubSeq(fp \o <<"0", "0">>, 1, 2)
        mag == DigitsValue(ip) * 100 + DigitsValue(f2)
    IN IF ip = <<>> /\ fp = <<>> THEN NaN
       ELSE Num(IF neg THEN 0 - mag ELSE mag)

\* src/app.js parseAmount: commas removed, parseFloat, NaN becomes 0
RemoveCommas(s) == SelectSeq(s, LAMBDA c : c # ",")
parseAmount(val) ==
    IF val.t \in {"null", "undefined"} THEN 0
    ELSE LET n == ParseFloat(RemoveCommas(val.s))
         IN IF n.nan THEN 0 ELSE n.v

(***************************************************************************)
(* The date formats of the import dropdown, and normalizeDate.             *)
(***************************************************************************)
F_AUTO == <<"a", "u", "t", "o">>
F_ISO == <<"Y", "Y", "Y", "Y", "-", "M", "M", "-", "D", "D">>
F_DMY == <<"D", "D", "/", "M", "M", "/", "Y", "Y", "Y", "Y">>
F_MDY == <<"M", "M", "/", "D", "D", "/", "Y", "Y", "Y", "Y">>
F_DMY_DASH == <<"D", "D", "-", "M", "M", "-", "Y", "Y", "Y", "Y">>
F_MDY_DASH == <<"M", "M", "-", "D", "D", "-", "Y", "Y", "Y", "Y">>
F_DMY2 == <<"D", "D", "/", "M", "M", "/", "Y", "Y">>
F_MDY2 == <<"M", "M", "/", "D", "D", "/", "Y", "Y">>
F_DMON2 == <<"D", "D", "-", "M", "o", "n", "-", "Y", "Y">>
F_DMON4 == <<"D", "D", "-", "M", "o", "n", "-", "Y", "Y", "Y", "Y">>
ExplicitFormats ==
    {F_ISO, F_DMY, F_MDY, F_DMY_DASH, F_MDY_DASH, F_DMY2, F_MDY2, F_DMON2, F_DMON4}

MONTHS ==
    << <<"j", "a", "n">>, <<"f", "e", "b">>, <<"m", "a", "r">>, <<"a", "p", "r">>,
       <<"m", "a", "y">>, <<"j", "u", "n">>, <<"j", "u", "l">>, <<"a", "u", "g">>,
       <<"s", "e", "p">>, <<"o", "c", "t">>, <<"n", "o", "v">>, <<"d", "e", "c">> >>
\* MONTHS[name]: 0 stands for undefined
MonthOf(name) ==
    IF \E i \in DOMAIN MONTHS : MONTHS[i] = name
    THEN CHOOSE i \in DOMAIN MONTHS : MONTHS[i] = name
    ELSE 0

\* s.match(/^(\d{1,2})-([A-Za-z]{3})-(\d{2,4})$/): no class holds "-", so the
\* match is the split of s at "-" into exactly three parts of those classes
MonMatch(s) ==
    LET p == Split(s, "-")
    IN /\ Len(p) = 3
       /\ Len(p[1]) \in 1..2 /\ AllDigits(p[1])
       /\ Len(p[2]) = 3 /\ AllLetters(p[2])
       /\ Len(p[3]) \in 2..4 /\ AllDigits(p[3])
\* s.match(/^(\d{4})-(\d{2})-(\d{2})/)
IsoMatch(s) ==
    /\ Len(s) >= 10
    /\ AllDigits(SubSeq(s, 1, 4)) /\ s[5] = "-"
    /\ AllDigits(SubSeq(s, 6, 7)) /\ s[8] = "-"
    /\ AllDigits(SubSeq(s, 9, 10))

\* year < 50 ? 2000 + year : 1900 + year
PivotYear(y) == IF y < 50 THEN 2000 + y ELSE 1900 + y
FormatDate(year, month, day) ==
    NumToString(year) \o <<"-">> \o PadStart2(NumToString(month))
        \o <<"-">> \o PadStart2(NumToString(day))

\* the DD-Mon-YY / DD-Mon-YYYY branch, for s that matches; Null when the
\* month abbreviation is unknown
MonDate(s) ==
    LET p == Split(s, "-")
        day == ParseInt(p[1]).v
        month == MonthOf(ToLowerCase(p[2]))
        y == ParseInt(p[3]).v
        year == IF y < 100 THEN PivotYear(y) ELSE y
    IN IF month = 0 THEN Null ELSE Str(FormatDate(year, month, day))

\* the tokenised formats: the forEach over fmt assigns day, month and year,
\* a later token overwriting an earlier one
TokenDate(s, format) ==
    LET sep == IF Includes(format, "/") THEN "/" ELSE "-"
        parts == Split(s, sep)
        fmt == Split(format, sep)
        val(i) == IF i \in DOMAIN parts THEN ParseInt(parts[i]) ELSE NaN
        last(toks) ==
            LET idx == {i \in DOMAIN fmt : fmt[i] \in toks}
            IN IF idx = {} THEN 0 ELSE CHOOSE i \in idx : \A j \in idx : j <= i
        day == IF last({<<"D", "D">>}) = 0 THEN NaN ELSE val(last({<<"D", "D">>}))
        month == IF last({<<"M", "M">>}) = 0 THEN NaN ELSE val(last({<<"M", "M">>}))
        yi == last({<<"Y", "Y", "Y", "Y">>, <<"Y", "Y">>})
        year == IF yi = 0 THEN NaN
                ELSE IF fmt[yi] = <<"Y", "Y", "Y", "Y">> THEN val(yi)
                ELSE IF val(yi).nan THEN NaN ELSE Num(PivotYear(val(yi).v))
    IN IF Len(parts) # 3 THEN Null
       ELSE IF Falsy(day) \/ Falsy(month) \/ Falsy(year) THEN Null
       ELSE Str(FormatDate(year.v, month.v, day.v))

\* new Date(s) on a string that is neither ISO nor DD-Mon-YY is parsed in an
\* implementation-defined way: its outcome is an input, Invalid Date or the
\* local calendar fields
InvalidDate == [valid |-> FALSE, y |-> 0, m |-> 0, d |-> 0]
LocalDate(y, m, d) == [valid |-> TRUE, y |-> y, m |-> m, d |-> d]
\* new Date(s): a string without a digit is an Invalid Date in every engine;
\* any other string that reaches the fallback gets the engine's own answer
NewDate(s, browser) == IF \E i \in DOMAIN s : IsDigit(s[i]) THEN browser ELSE InvalidDate

\* whether normalizeDate(dateStr, format) gets as far as new Date(s) and the
\* engine's answer for s is its own
ReachesBrowser(dateStr, format) ==
    /\ Truthy(dateStr)
    /\ format = <<>> \/ format = F_AUTO
    /\ LET s == Trim(dateStr.s)
       IN /\ ~IsoMatch(s)
          /\ ~(MonMatch(s) /\ MonDate(s) # Null)
          /\ \E i \in DOMAIN s : IsDigit(s[i])

\* variant of the auto branch that leaves every string to new Date(s)
normalizeDate_BrowserOnly(dateStr, format, browser) ==
    IF ~Truthy(dateStr) THEN Null
    ELSE LET s == Trim(dateStr.s)
         IN IF format # <<>> /\ format # F_AUTO
            THEN IF format \in {F_DMON2, F_DMON4}
                 THEN IF ~MonMatch(s) THEN Null ELSE MonDate(s)
                 ELSE TokenDate(s, format)
            ELSE LET d == NewDate(s, browser)
                 IN IF d.valid THEN Str(FormatDate(d.y, d.m, d.d)) ELSE Null

normalizeDate(dateStr, format, browser) ==
    IF ~Truthy(dateStr) THEN Null
    ELSE LET s == Trim(dateStr.s)
         IN IF format # <<>> /\ format # F_AUTO
            THEN IF format \in {F_DMON2, F_DMON4}
                 THEN IF ~MonMatch(s) THEN Null ELSE MonDate(s)
                 ELSE TokenDate(s, format)
            ELSE IF IsoMatch(s) THEN Str(SubSeq(s, 1, 10))
            ELSE IF MonMatch(s) /\ MonDate(s) # Null THEN MonDate(s)
            ELSE LET d == NewDate(s, browser)
                 IN IF d.valid THEN Str(FormatDate(d.y, d.m, d.d)) ELSE Null

(***************************************************************************)
(* The rule engine.  A category name is a string, "" standing for NULL     *)
(* (every test the code makes of a name is a truthiness test, which NULL   *)
(* and the empty string both fail).                                        *)
(***************************************************************************)
NoCategory == ""
UNCATEGORIZED == "Uncategorized"

\* keyword.replace(/[.*+?^${}()|[\]\\]/g, '\\$&')
MetaChars == {".", "*", "+", "?", "^", "$", "{", "}", "(", ")", "|", "[", "]", "\\"}
\* variant of the replace that leaves the keyword as it is
escapeKeyword_Unescaped(keyword) == keyword

RECURSIVE escapeKeyword(_)
escapeKeyword(keyword) ==
    IF keyword = <<>> THEN <<>>
    ELSE (IF Head(keyword) \in MetaChars THEN <<"\\", Head(keyword)>> ELSE <<Head(keyword)>>)
         \o escapeKeyword(Tail(keyword))

\* The elements of a pattern source: an escaped character is that character,
\* a bare "." is any character but a line break, anything else is itself.
RECURSIVE PatternElements(_)
PatternElements(src) ==
    IF src = <<>> THEN <<>>
    ELSE IF Head(src) = "\\" /\ Len(src) >= 2
         THEN <<[any |-> FALSE, c |-> src[2]]>> \o PatternElements(Tail2(src, 3))
    ELSE IF Head(src) = "."
         THEN <<[any |-> TRUE, c |-> "."]>> \o PatternElements(Tail(src))
    ELSE <<[any |-> FALSE, c |-> Head(src)]>> \o PatternElements(Tail(src))

ElementMatches(e, c, caseSensitive) ==
    IF e.any THEN c \notin {"\n", "\r"}
    ELSE IF caseSensitive THEN e.c = c
    ELSE ToLowerChar(e.c) = ToLowerChar(c)

\* variant of the pattern without its two boundary groups
RegExpTest_NoBoundary(escapedKeyword, caseSensitive, description) ==
    LET els == PatternElements(escapedKeyword)
        n == Len(els)
    IN \E q \in 0..Len(description) :
          /\ q + n <= Len(description)
          /\ \A i \in 1..n : ElementMatches(els[i], description[q + i], caseSensitive)

\* new RegExp(`(^|[^\w])${escapedKeyword}([^\w]|$)`, flags).test(description):
\* some start p, the first group being ^ (at p = 0) or one non-word character,
\* then the keyword's elements, then one non-word character or the end
RegExpTest(escapedKeyword, caseSensitive, description) ==
    LET els == PatternElements(escapedKeyword)
        n == Len(els)
        len == Len(description)
        body(q) == /\ q + n <= len
                   /\ \A i \in 1..n : ElementMatches(els[i], description[q + i], caseSensitive)
                   /\ \/ q + n = len
                      \/ ~IsWordChar(description[q + n + 1])
    IN \E p \in 0..len :
          \/ p = 0 /\ body(0)
          \/ p < len /\ ~IsWordChar(description[p + 1]) /\ body(p + 1)

\* variant of the ordering that leaves the priority out
RuleBefore_IdOnly(r, q) == r.id < q.id

\* ORDER BY tr.priority DESC, tr.id ASC
RuleBefore(r, q) == r.priority > q.priority \/ (r.priority = q.priority /\ r.id < q.id)
RECURSIVE OrderRules(_)
OrderRules(S) ==
    IF S = {} THEN <<>>
    ELSE LET f == CHOOSE r \in S : \A q \in S \ {r} : RuleBefore(r, q)
         IN <<f>> \o OrderRules(S \ {f})

\* LEFT JOIN categories c ON tr.category_value = c.id: the name, or NULL
CategoryName(cats, id) ==
    IF \E c \in cats : c.id = id THEN (CHOOSE c \in cats : c.id = id).name ELSE NoCategory
\* SELECT id FROM categories WHERE name = ?: the id, or 0 for no row
CategoryIdByName(cats, name) ==
    IF \E c \in cats : c.name = name THEN (CHOOSE c \in cats : c.name = name).id ELSE 0

\* the rows of the rule query: enabled rules, joined and ordered
RuleRows(rules, cats) ==
    LET sorted == OrderRules({r \in rules : r.enabled = 1})
    IN [i \in DOMAIN sorted |->
          [keyword |-> sorted[i].keyword, action |-> sorted[i].action,
           category_name |-> CategoryName(cats, sorted[i].category_value),
           case_sensitive |-> sorted[i].case_sensitive, id |-> sorted[i].id]]

RuleMatches(rule, description) ==
    RegExpTest(escapeKeyword(rule.keyword), rule.case_sensitive # 0, description)

\* variant of the loop in which the first matching rule of either kind ends it
RECURSIVE ScanRules_FirstMatchEnds(_, _, _)
ScanRules_FirstMatchEnds(rows, description, st) ==
    IF rows = <<>> THEN st
    ELSE LET rule == Head(rows)
             hit == RuleMatches(rule, description)
             seen == [st EXCEPT !.tested = @ \cup {[id |-> rule.id, hit |-> hit]}]
         IN IF ~hit THEN ScanRules_FirstMatchEnds(Tail(rows), description, seen)
            ELSE IF rule.action = "ignore"
                 THEN [seen EXCEPT !.shouldIgnore = TRUE, !.ignoreRuleMatched = TRUE]
            ELSE IF rule.action = "categorize" /\ rule.category_name # NoCategory
                 THEN [seen EXCEPT !.category = rule.category_name,
                                   !.categoryRuleMatched = TRUE]
            ELSE ScanRules_FirstMatchEnds(Tail(rows), description, seen)

\* variant of the loop whose break comes as soon as an ignore rule has matched
RECURSIVE ScanRules_StopsAfterIgnore(_, _, _)
ScanRules_StopsAfterIgnore(rows, description, st) ==
    IF rows = <<>> THEN st
    ELSE LET rule == Head(rows)
             hit == RuleMatches(rule, description)
             seen == [st EXCEPT !.tested = @ \cup {[id |-> rule.id, hit |-> hit]}]
             st1 == IF ~hit THEN seen
                    ELSE IF rule.action = "ignore" /\ ~st.ignoreRuleMatched
                         THEN [seen EXCEPT !.shouldIgnore = TRUE, !.ignoreRuleMatched = TRUE]
                    ELSE IF rule.action = "categorize" /\ ~st.categoryRuleMatched
                            /\ rule.category_name # NoCategory
                         THEN [seen EXCEPT !.category = rule.category_name,
                                           !.categoryRuleMatched = TRUE]
                    ELSE seen
         IN IF hit /\ st1.ignoreRuleMatched THEN st1
            ELSE ScanRules_StopsAfterIgnore(Tail(rows), description, st1)

\* the for loop over the rows, with its break once both kinds have matched;
\* tested records each pattern.test(description) made and its answer
RECURSIVE ScanRules(_, _, _)
ScanRules(rows, description, st) ==
    IF rows = <<>> THEN st
    ELSE LET rule == Head(rows)
             hit == RuleMatches(rule, description)
             seen == [st EXCEPT !.tested = @ \cup {[id |-> rule.id, hit |-> hit]}]
             st1 == IF ~hit THEN seen
                    ELSE IF rule.action = "ignore" /\ ~st.ignoreRuleMatched
                         THEN [seen EXCEPT !.shouldIgnore = TRUE, !.ignoreRuleMatched = TRUE]
                    ELSE IF rule.action = "categorize" /\ ~st.categoryRuleMatched
                            /\ rule.category_name # NoCategory
                         THEN [seen EXCEPT !.category = rule.category_name,
                                           !.categoryRuleMatched = TRUE]
                    ELSE seen
         IN IF hit /\ st1.ignoreRuleMatched /\ st1.categoryRuleMatched THEN st1
            ELSE ScanRules(Tail(rows), description, st1)

\* the state of the loop when applyTransactionRules returns
RulesLoop(description, defaultCategory, rules, cats) ==
    LET fallbackCategory ==
            IF defaultCategory # NoCategory THEN defaultCategory ELSE UNCATEGORIZED
        start == [shouldIgnore |-> FALSE, category |-> fallbackCategory,
                  ignoreRuleMatched |-> FALSE, categoryRuleMatched |-> FALSE, tested |-> {}]
        rows == RuleRows(rules, cats)
    IN IF description = <<>> \/ rows = <<>> THEN start
       ELSE ScanRules(rows, description, start)

applyTransactionRules(description, defaultCategory, rules, cats) ==
    LET st == RulesLoop(description, defaultCategory, rules, cats)
    IN [shouldIgnore |-> st.shouldIgnore, category |-> st.category]

(***************************************************************************)
(* Papa.parse and mapTransaction.  A file is its lines, a line its cells   *)
(* (the splitting of a line at the delimiter is Papa's own).  A parsed row *)
(* is a function to cell values: from the header's names with header:true, *)
(* from 1..n (the array, index 0 first) otherwise.                         *)
(***************************************************************************)
EmptyLine == << <<>> >>
\* text.split('\n'), lines.slice(profile.skipRows), then Papa.parse with
\* skipEmptyLines: true and header: profile.hasHeader !== false
RowObject(header, line) ==
    LET n == IF Len(header) < Len(line) THEN Len(header) ELSE Len(line)
    IN [k \in {header[i] : i \in 1..n} |->
          Str(line[CHOOSE i \in 1..n : header[i] = k /\ \A j \in (i + 1)..n : header[j] # k])]
RowArray(line) == [i \in DOMAIN line |-> Str(line[i])]
PapaParse(text, profile) ==
    LET skipped == IF profile.skipRows > 0 THEN Tail2(text, profile.skipRows + 1) ELSE text
        lines == SelectSeq(skipped, LAMBDA l : l # EmptyLine)
    IN IF profile.hasHeader
       THEN IF lines = <<>> THEN <<>>
            ELSE [i \in 1..(Len(lines) - 1) |-> RowObject(lines[1], lines[i + 1])]
       ELSE [i \in DOMAIN lines |-> RowArray(lines[i])]

\* row[name] of a header-mode row, row[parseInt(ref)] of an array row
RowGet(row, hasHeader, ref) ==
    IF hasHeader THEN (IF ref \in DOMAIN row THEN row[ref] ELSE Undefined)
    ELSE LET idx == ParseInt(ref)
         IN IF ~idx.nan /\ (idx.v + 1) \in DOMAIN row THEN row[idx.v + 1] ELSE Undefined

RECURSIVE Join(_, _)
Join(parts, sep) ==
    IF parts = <<>> THEN <<>>
    ELSE IF Len(parts) = 1 THEN parts[1]
    ELSE parts[1] \o sep \o Join(Tail(parts), sep)

\* the description: one column, or several comma-separated ones joined by " "
MapDescription(row, profile) ==
    IF Includes(profile.descriptionColumn, ",")
    THEN LET columns == Split(profile.descriptionColumn, ",")
             vals == [i \in DOMAIN columns |->
                        RowGet(row, profile.hasHeader, Trim(columns[i]))]
             kept == SelectSeq(vals, LAMBDA v : Truthy(v) /\ Trim(v.s) # <<>>)
         IN Str(Join([i \in DOMAIN kept |-> kept[i].s], <<" ">>))
    ELSE RowGet(row, profile.hasHeader, profile.descriptionColumn)

categorizeTransaction(description) == UNCATEGORIZED

NoTransaction ==
    [isNull |-> TRUE, import_id |-> 0, date |-> Null, description |-> <<>>,
     amount |-> 0, category |-> NoCategory]

\* variant of the mapper without the test of the raw amount cell
mapTransaction_NoBlankCheck(row, profile, importId, dateFormat, browser) ==
    LET date == RowGet(row, profile.hasHeader, profile.dateColumn)
        description == MapDescription(row, profile)
        paired == profile.creditColumn # <<>> /\ profile.debitColumn # <<>>
        amount ==
            IF paired
            THEN parseAmount(RowGet(row, profile.hasHeader, profile.creditColumn))
                 - parseAmount(RowGet(row, profile.hasHeader, profile.debitColumn))
            ELSE parseAmount(RowGet(row, profile.hasHeader, profile.amountColumn))
    IN IF ~Truthy(date) THEN NoTransaction
       ELSE [isNull |-> FALSE,
             import_id |-> importId,
             date |-> normalizeDate(date, IF dateFormat # <<>> THEN dateFormat
                                          ELSE profile.dateFormat, browser),
             description |-> IF Truthy(description) THEN description.s ELSE <<>>,
             amount |-> amount,
             category |-> categorizeTransaction(description)]

mapTransaction(row, profile, importId, dateFormat, browser) ==
    LET date == RowGet(row, profile.hasHeader, profile.dateColumn)
        description == MapDescription(row, profile)
        paired == profile.creditColumn # <<>> /\ profile.debitColumn # <<>>
        raw == RowGet(row, profile.hasHeader, profile.amountColumn)
        amount ==
            IF paired
            THEN parseAmount(RowGet(row, profile.hasHeader, profile.creditColumn))
                 - parseAmount(RowGet(row, profile.hasHeader, profile.debitColumn))
            ELSE parseAmount(raw)
    IN IF ~paired /\ (raw.t \in {"undefined", "null"} \/ Trim(raw.s) = <<>>)
       THEN NoTransaction
       ELSE IF ~Truthy(date) THEN NoTransaction
       ELSE [isNull |-> FALSE,
             import_id |-> importId,
             date |-> normalizeDate(date, IF dateFormat # <<>> THEN dateFormat
                                          ELSE profile.dateFormat, browser),
             description |-> IF Truthy(description) THEN description.s ELSE <<>>,
             amount |-> amount,
             category |-> categorizeTransaction(description)]

(***************************************************************************)
(* Bounds and the inputs the handlers are given.                           *)
(***************************************************************************)
MaxFiles == 2
MaxImports == 2
MaxRules == 1
MaxCategories == 1
MaxManual == 1

K_CAT == <<"C", "A", "T">>
K_FOOD == <<"F", "O", "O", "D">>
D_CATFOOD == <<"C", "A", "T", " ", "F", "O", "O", "D">>
D_CATALOG == <<"C", "A", "T", "A", "L", "O", "G">>
COL_D == <<"D">>
COL_T == <<"T">>
COL_A == <<"A">>
HeaderLine == <<COL_D, COL_T, COL_A>>
DATE_15 == <<"1", "5", "/", "0", "1", "/", "2", "0", "2", "4">>
DATE_ISO == <<"2", "0", "2", "4", "-", "0", "1", "-", "1", "6">>
DATE_BAD == <<"n", "/", "a">>

\* the CSV files a user may select
File1 == [name |-> "a.csv",
          text |-> <<HeaderLine,
                     <<DATE_15, D_CATFOOD, <<"-", "5">> >>,
                     <<DATE_BAD, D_CATALOG, <<"7">> >> >>]
File2 == [name |-> "b.csv",
          text |-> << <<DATE_ISO, D_CATALOG, <<"7">> >>,
                     << <<>>, <<>>, <<>> >>,
                     EmptyLine,
                     <<DATE_15, D_CATFOOD, <<"2", ".", "5">> >> >>]
FilePool == {File1, File2}
RECURSIVE SeqsUpTo(_, _)
SeqsUpTo(S, n) ==
    IF n = 0 THEN {<<>>}
    ELSE LET shorter == SeqsUpTo(S, n - 1)
         IN shorter \cup {Append(q, x) : q \in shorter, x \in S}
FileSelections == SeqsUpTo(FilePool, MaxFiles) \ {<<>>}

\* createDefaultProfiles, with the column names of the files above
N_CHASE == <<"C", "h", "a", "s", "e">>
N_CITIBANK == <<"C", "i", "t", "i", "b", "a", "n", "k", " ", "(", "N", "o", " ",
                 "H", "e", "a", "d", "e", "r", ")">>
DefaultProfiles ==
    << [id |-> 1, name |-> N_CHASE,
        hasHeader |-> TRUE, skipRows |-> 0, dateColumn |-> COL_D,
        descriptionColumn |-> COL_T, amountColumn |-> COL_A,
        creditColumn |-> <<>>, debitColumn |-> <<>>, dateFormat |-> F_DMY],
       [id |-> 2, name |-> N_CITIBANK,
        hasHeader |-> FALSE, skipRows |-> 0, dateColumn |-> <<"0">>,
        descriptionColumn |-> <<"1">>, amountColumn |-> <<"2">>,
        creditColumn |-> <<>>, debitColumn |-> <<>>, dateFormat |-> F_AUTO] >>

\* the import date-format dropdown: "" (use the profile's) or a format
DateFormatChoices == {<<>>, F_MDY}
\* what new Date(s) may give for a string that reaches the fallback
BrowserOutcomes == {InvalidDate, LocalDate(2024, 1, 2)}
CategoryNames == {"Food"}
\* the forms the user may submit as a new rule; the category is the option
\* selected by its name (NoCategory: none, or no such option)
RuleForms ==
    {[keyword |-> K_CAT, action |-> "categorize", category |-> "Food",
      caseSensitive |-> FALSE, priority |-> 10],
     [keyword |-> K_CAT, action |-> "ignore", category |-> NoCategory,
      caseSensitive |-> TRUE, priority |-> 5]}

(***************************************************************************)
(* State.                                                                  *)
(***************************************************************************)
VARIABLES
    categories,         \* table categories: {[id, name]}
    transaction_rules,  \* table transaction_rules
    transactions,       \* table transactions
    imports,            \* table imports
    accounts,           \* table accounts: {[id, bank_id]}
    banks,              \* table banks: the stored bank profiles, each with its id
    sqlite_sequence,    \* AUTOINCREMENT: the largest id each table has given
    uploadedFiles,      \* the global uploadedFiles
    bankProfiles,       \* the global bankProfiles
    _isDirty,           \* the global _isDirty
    _dirtyTimer,        \* the global _dirtyTimer: whether the debounce timeout is pending
    indexedDB,          \* the record of store 'database' (Null: none)
    localStorage,       \* the item bankConsolidator_backup (Null: none)
    saving,             \* the saveDatabaseToIndexedDB calls in flight, oldest first
    page,               \* "open", or "closed" between a termination and the next load
    imp,                \* the frame of the processUploadedFiles call in flight
    rowLog,             \* history: what the call in flight (or the last) did per row
    atStart,            \* history: rules and categories when that call started
    last,               \* history: whether the last handler was the bulk
                        \* re-application, the table before it and the engine's
                        \* calls; the import ignored or restored by the last handler
    probe               \* the last application of a pure function: input and result

vars == <<categories, transaction_rules, transactions, imports, accounts, banks,
          sqlite_sequence, uploadedFiles, bankProfiles, _isDirty, _dirtyTimer,
          indexedDB, localStorage, saving, page, imp, rowLog, atStart, last, probe>>

IdleFrame ==
    [pc |-> "idle", i |-> 0, profile |-> DefaultProfiles[1], accountId |-> 0,
     effectiveDateFormat |-> <<>>, file |-> File1, importId |-> 0, totalImported |-> 0]
NoSnapshot == [rules |-> {}, categories |-> {}, files |-> <<>>]
NoProbe == [fn |-> "none"]
\* the value of last after any handler but the bulk re-application, undoImport
\* (undone: its import, before: the table before it) and the reactivateImport
\* that follows the undoImport of the same import (restored: that import)
NotBulk == [bulk |-> FALSE, before |-> {}, engineCalls |-> {}, undone |-> 0, restored |-> 0]

\* the page's globals, and the database initSQLite and createTables leave
InitPage ==
    /\ uploadedFiles = <<>>
    /\ bankProfiles = DefaultProfiles
    /\ _isDirty = FALSE
    /\ _dirtyTimer = FALSE
    /\ saving = <<>>
    /\ page = "open"
    /\ imp = IdleFrame
    /\ rowLog = <<>>
    /\ atStart = NoSnapshot
    /\ last = NotBulk
InitStorage ==
    /\ accounts = {}
    /\ banks = Range(DefaultProfiles)
    /\ indexedDB = Null
    /\ localStorage = Null
InitDatabase ==
    /\ categories = {}
    /\ transaction_rules = {}
    /\ transactions = {}
    /\ imports = {}
    /\ sqlite_sequence = [categories |-> 0, transaction_rules |-> 0,
                          transactions |-> 0, imports |-> 0,
                          accounts |-> 0, banks |-> Len(DefaultProfiles)]
    /\ InitStorage
    /\ InitPage

\* markDirty()
markDirty ==
    /\ _isDirty' = TRUE
    /\ _dirtyTimer' = TRUE

\* the characters of the profile names in the order of their codes, as the
\* BINARY collation of ORDER BY name compares them
CodeOrder == <<" ", "(", ")">> \o DigitSeq \o UpperSeq \o <<"_">> \o LowerSeq
CharCode(c) == CHOOSE i \in DOMAIN CodeOrder : CodeOrder[i] = c
RECURSIVE NameBefore(_, _)
NameBefore(a, b) ==
    IF b = <<>> THEN FALSE
    ELSE IF a = <<>> THEN TRUE
    ELSE IF Head(a) # Head(b) THEN CharCode(Head(a)) < CharCode(Head(b))
    ELSE NameBefore(Tail(a), Tail(b))
\* loadBankProfiles on a banks table with rows: the rows ordered by name
RECURSIVE loadBankProfiles(_)
loadBankProfiles(rows) ==
    IF rows = {} THEN <<>>
    ELSE LET first == CHOOSE r \in rows : \A q \in rows \ {r} : NameBefore(r.name, q.name)
         IN <<[first EXCEPT !.dateFormat = IF @ = <<>> THEN F_AUTO ELSE @]>>
            \o loadBankProfiles(rows \ {first})
\* saveBankProfileToDB(profile) for a profile that has its id: the UPDATE
saveBankProfileToDB(profile, rows) ==
    {IF r.id = profile.id
     THEN [profile EXCEPT !.dateFormat = IF @ = <<>> THEN F_AUTO ELSE @]
     ELSE r : r \in rows}

Init == InitDatabase /\ probe = NoProbe

(***************************************************************************)
(* processUploadedFiles.                                                   *)
(***************************************************************************)
\* The schema's NOT NULL columns of transactions: db.run throws when one of
\* them is bound to null, and dbHelpers.safeRun catches it.
InsertViolatesNotNull(transaction) == transaction.date = Null

\* the INSERT of insertTransaction, ruleResult being the engine's answer
InsertResolved(transaction, db, cats, ruleResult) ==
    LET categoryName == IF ruleResult.category # NoCategory THEN ruleResult.category
                        ELSE UNCATEGORIZED
        byName == CategoryIdByName(cats, categoryName)
        categoryId == IF byName # 0 THEN byName ELSE CategoryIdByName(cats, UNCATEGORIZED)
        id == db.seq + 1
        stored == ~InsertViolatesNotNull(transaction)
    IN [transactions |->
            IF stored
            THEN db.transactions \cup
                 {[id |-> id, import_id |-> transaction.import_id,
                   date |-> transaction.date.s, description |-> transaction.description,
                   amount |-> transaction.amount, category_id |-> categoryId,
                   ignored |-> IF ruleResult.shouldIgnore THEN 1 ELSE 0,
                   manual_category |-> 0]}
            ELSE db.transactions,
        seq |-> IF stored THEN id ELSE db.seq,
        stored |-> stored,
        ruleResult |-> ruleResult]

\* insertTransaction(transaction) on the tables db = [transactions, seq]:
\* the new tables, whether a row was stored, and the engine's result
insertTransaction(transaction, db, rules, cats) ==
    InsertResolved(transaction, db, cats,
                   applyTransactionRules(transaction.description, transaction.category,
                                         rules, cats))

\* "if (transaction) { insertTransaction(transaction); totalImported++;
\* fileImported++; }", ins being what insertTransaction does; and the history
\* entry of row k of n
CountRow(acc, k, n, frame, transaction, ins) ==
    LET next == IF transaction.isNull THEN acc
                ELSE [acc EXCEPT !.transactions = ins.transactions, !.seq = ins.seq,
                                 !.fileImported = @ + 1, !.totalImported = @ + 1]
        entry == [file |-> frame.i, importId |-> frame.importId, row |-> k, of |-> n,
                  rejected |-> transaction.isNull,
                  counted |-> next.fileImported = acc.fileImported + 1,
                  dateNull |-> ~transaction.isNull /\ transaction.date = Null,
                  stored |-> next.transactions # acc.transactions,
                  txId |-> IF next.transactions # acc.transactions THEN next.seq ELSE 0,
                  description |-> transaction.description,
                  ruleResult |-> IF transaction.isNull
                                 THEN [shouldIgnore |-> FALSE, category |-> NoCategory]
                                 ELSE ins.ruleResult]
    IN [next EXCEPT !.log = Append(@, entry)]
InsertMapped(acc, k, n, frame, transaction, rules, cats) ==
    CountRow(acc, k, n, frame, transaction,
             insertTransaction(transaction, [transactions |-> acc.transactions,
                                             seq |-> acc.seq], rules, cats))

\* one pass of "for (const row of result.data)", row k of n: the tables, the
\* counters and the history of the rows so far
ImportRow(acc, row, k, n, frame, browser, rules, cats) ==
    InsertMapped(acc, k, n, frame,
                 mapTransaction(row, frame.profile, frame.importId,
                                frame.effectiveDateFormat, browser),
                 rules, cats)

\* variant of the row loop that stops at the first rejected row
RECURSIVE ImportRows_AbortOnReject(_, _, _, _, _, _, _)
ImportRows_AbortOnReject(acc, rows, k, frame, oracle, rules, cats) ==
    IF k > Len(rows) THEN acc
    ELSE LET next == ImportRow(acc, rows[k], k, Len(rows), frame, oracle[k], rules, cats)
         IN IF next.log[Len(next.log)].rejected THEN next
            ELSE ImportRows_AbortOnReject(next, rows, k + 1, frame, oracle, rules, cats)

\* variant of the row loop that hands the rows to storage last row first
RECURSIVE ImportRows_LastRowFirst(_, _, _, _, _, _, _)
ImportRows_LastRowFirst(acc, rows, k, frame, oracle, rules, cats) ==
    IF k > Len(rows) THEN acc
    ELSE ImportRow(ImportRows_LastRowFirst(acc, rows, k + 1, frame, oracle, rules, cats),
                   rows[k], k, Len(rows), frame, oracle[k], rules, cats)

RECURSIVE ImportRows(_, _, _, _, _, _, _)
ImportRows(acc, rows, k, frame, oracle, rules, cats) ==
    IF k > Len(rows) THEN acc
    ELSE ImportRows(ImportRow(acc, rows[k], k, Len(rows), frame, oracle[k], rules, cats),
                    rows, k + 1, frame, oracle, rules, cats)

\* the head of "for (let i = 0; i < uploadedFiles.length; i++)" up to the
\* await of file.text(): createImportRecord; or, past the last file, markDirty
\* and the await of loadTransactions.  tables = [imports, seq] before it.
LoopHead(frame, files, tables) ==
    IF frame.i < Len(files)
    THEN /\ tables.seq.imports < MaxImports
         /\ imports' = tables.imports \cup
                {[id |-> tables.seq.imports + 1, filename |-> files[frame.i + 1].name,
                  account_id |-> frame.accountId, transaction_count |-> 0]}
         /\ sqlite_sequence' = [tables.seq EXCEPT !.imports = @ + 1]
         /\ imp' = [frame EXCEPT !.pc = "awaitText", !.file = files[frame.i + 1],
                                 !.importId = tables.seq.imports + 1]
         /\ UNCHANGED <<_isDirty, _dirtyTimer>>
    ELSE /\ imports' = tables.imports
         /\ sqlite_sequence' = tables.seq
         /\ imp' = [frame EXCEPT !.pc = "awaitLoad"]
         /\ markDirty

\* the call, up to its first await
processUploadedFiles(formats) ==
    /\ imp.pc = "idle"
    /\ \E profileIdx \in DOMAIN bankProfiles, accountId \in 0..1, dateFormat \in formats :
          LET profile == bankProfiles[profileIdx]
              effectiveDateFormat ==
                  IF dateFormat # <<>> THEN dateFormat
                  ELSE IF profile.dateFormat # <<>> THEN profile.dateFormat ELSE F_AUTO
          IN IF accountId = 0
             THEN /\ last' = NotBulk
                  /\ UNCHANGED <<imports, sqlite_sequence, imp, rowLog, atStart,
                                 _isDirty, _dirtyTimer>>
             ELSE /\ LoopHead([pc |-> "loop", i |-> 0, profile |-> profile,
                               accountId |-> accountId,
                               effectiveDateFormat |-> effectiveDateFormat,
                               file |-> File1, importId |-> 0, totalImported |-> 0],
                              uploadedFiles,
                              [imports |-> imports, seq |-> sqlite_sequence])
                  /\ rowLog' = <<>>
                  /\ atStart' = [rules |-> transaction_rules, categories |-> categories,
                               files |-> uploadedFiles]
                  /\ last' = NotBulk
    /\ probe' = NoProbe
    /\ UNCHANGED <<categories, transaction_rules, transactions, uploadedFiles, bankProfiles>>
    /\ UNCHANGED <<accounts, banks, indexedDB, localStorage, saving, page>>

\* the end of a file's pass without the count being written before the next
\* file starts
EndOfFile_CountUnwritten(done) ==
    /\ transactions' = done.transactions
    /\ rowLog' = done.log
    /\ LoopHead([imp EXCEPT !.i = @ + 1, !.totalImported = done.totalImported],
                uploadedFiles,
                [imports |-> imports,
                 seq |-> [sqlite_sequence EXCEPT !.transactions = done.seq]])
\* the end of a file's pass: updateImportCount(importId, fileImported), and
\* the loop goes on to the next file
EndOfFile(done) ==
    /\ transactions' = done.transactions
    /\ rowLog' = done.log
    /\ LoopHead([imp EXCEPT !.i = @ + 1, !.totalImported = done.totalImported],
                uploadedFiles,
                [imports |-> {IF m.id = imp.importId
                              THEN [m EXCEPT !.transaction_count = done.fileImported]
                              ELSE m : m \in imports},
                 seq |-> [sqlite_sequence EXCEPT !.transactions = done.seq]])
\* the rows of the parsed file, the answers of new Date(s) being drawn for the
\* rows whose date is left to it
ImportParsed(rows) ==
    LET open == {k \in DOMAIN rows :
                   ReachesBrowser(RowGet(rows[k], imp.profile.hasHeader,
                                         imp.profile.dateColumn),
                                  imp.effectiveDateFormat)}
    IN \E answers \in [open -> BrowserOutcomes] :
          EndOfFile(ImportRows([transactions |-> transactions,
                                seq |-> sqlite_sequence.transactions,
                                fileImported |-> 0,
                                totalImported |-> imp.totalImported,
                                log |-> rowLog],
                               rows, 1, imp,
                               [k \in DOMAIN rows |->
                                  IF k \in open THEN answers[k] ELSE InvalidDate],
                               transaction_rules, categories))

\* file.text() resolves: the file is parsed, its rows are mapped and inserted,
\* the import's count is written, and the loop goes on to the next file
ImportFile ==
    /\ imp.pc = "awaitText"
    /\ ImportParsed(PapaParse(imp.file.text, imp.profile))
    /\ last' = NotBulk
    /\ probe' = NoProbe
    /\ UNCHANGED <<categories, transaction_rules, uploadedFiles, bankProfiles, atStart>>
    /\ UNCHANGED <<accounts, banks, indexedDB, localStorage, saving, page>>

\* file.text() rejects: the catch block reports the error
ImportFileUnreadable ==
    /\ imp.pc = "awaitText"
    /\ imp' = IdleFrame
    /\ rowLog' = <<>>
    /\ atStart' = NoSnapshot
    /\ last' = NotBulk
    /\ probe' = NoProbe
    /\ UNCHANGED <<categories, transaction_rules, transactions, imports, sqlite_sequence,
                   uploadedFiles, bankProfiles>>
    /\ UNCHANGED <<accounts, banks, _isDirty, _dirtyTimer, indexedDB, localStorage, saving,
                   page>>

\* after the awaits of loadTransactions, loadImportHistory and updateAnalytics:
\* the success message and cancelUpload(); the call's frame and history end
ImportDone ==
    /\ imp.pc = "awaitLoad"
    /\ imp' = IdleFrame
    /\ uploadedFiles' = <<>>
    /\ rowLog' = <<>>
    /\ atStart' = NoSnapshot
    /\ last' = NotBulk
    /\ probe' = NoProbe
    /\ UNCHANGED <<categories, transaction_rules, transactions, imports, sqlite_sequence,
                   bankProfiles>>
    /\ UNCHANGED <<accounts, banks, _isDirty, _dirtyTimer, indexedDB, localStorage, saving,
                   page>>

\* handleFiles(files) and resetFileSelection()
handleFiles(selections) ==
    /\ \E files \in selections : uploadedFiles' = files
    /\ last' = NotBulk
    /\ probe' = NoProbe
    /\ UNCHANGED <<categories, transaction_rules, transactions, imports, sqlite_sequence,
                   bankProfiles, imp, rowLog, atStart>>
    /\ UNCHANGED <<accounts, banks, _isDirty, _dirtyTimer, indexedDB, localStorage, saving,
                   page>>
resetFileSelection ==
    /\ uploadedFiles # <<>>
    /\ uploadedFiles' = <<>>
    /\ last' = NotBulk
    /\ probe' = NoProbe
    /\ UNCHANGED <<categories, transaction_rules, transactions, imports, sqlite_sequence,
                   bankProfiles, imp, rowLog, atStart>>
    /\ UNCHANGED <<accounts, banks, _isDirty, _dirtyTimer, indexedDB, localStorage, saving,
                   page>>

(***************************************************************************)
(* Categories and rules.                                                   *)
(***************************************************************************)
\* addCategory: the INSERT fails on the UNIQUE name
addCategory(names, max) ==
    /\ sqlite_sequence.categories < max
    /\ \E name \in names :
          IF \E c \in categories : c.name = name
          THEN UNCHANGED <<categories, sqlite_sequence, _isDirty, _dirtyTimer>>
          ELSE /\ categories' = categories \cup
                      {[id |-> sqlite_sequence.categories + 1, name |-> name]}
               /\ sqlite_sequence' = [sqlite_sequence EXCEPT !.categories = @ + 1]
               /\ markDirty
    /\ last' = NotBulk
    /\ probe' = NoProbe
    /\ UNCHANGED <<transaction_rules, transactions, imports, uploadedFiles, bankProfiles,
                   imp, rowLog, atStart>>
    /\ UNCHANGED <<accounts, banks, indexedDB, localStorage, saving, page>>

\* deleteCategory: rules and transactions keep the deleted id
deleteCategory ==
    /\ \E c \in categories : categories' = categories \ {c}
    /\ last' = NotBulk
    /\ probe' = NoProbe
    /\ UNCHANGED <<transaction_rules, transactions, imports, sqlite_sequence, uploadedFiles,
                   bankProfiles, imp, rowLog, atStart>>
    /\ markDirty
    /\ UNCHANGED <<accounts, banks, indexedDB, localStorage, saving, page>>

\* addRule: the keyword is trimmed and must not be empty, a categorize rule
\* needs a selected category; the rule is inserted enabled
addRule(forms, max) ==
    /\ sqlite_sequence.transaction_rules < max
    /\ \E form \in forms :
          LET keyword == Trim(form.keyword)
              categoryValue == IF form.action = "categorize"
                               THEN CategoryIdByName(categories, form.category) ELSE 0
          IN IF keyword = <<>> \/ (form.action = "categorize" /\ categoryValue = 0)
             THEN UNCHANGED <<transaction_rules, sqlite_sequence, _isDirty, _dirtyTimer>>
             ELSE /\ transaction_rules' = transaction_rules \cup
                        {[id |-> sqlite_sequence.transaction_rules + 1,
                          keyword |-> keyword, action |-> form.action,
                          category_value |-> categoryValue,
                          case_sensitive |-> IF form.caseSensitive THEN 1 ELSE 0,
                          enabled |-> 1, priority |-> form.priority]}
                  /\ sqlite_sequence' = [sqlite_sequence EXCEPT !.transaction_rules = @ + 1]
                  /\ markDirty
    /\ last' = NotBulk
    /\ probe' = NoProbe
    /\ UNCHANGED <<categories, transactions, imports, uploadedFiles, bankProfiles,
                   imp, rowLog, atStart>>
    /\ UNCHANGED <<accounts, banks, indexedDB, localStorage, saving, page>>

deleteRule ==
    /\ \E r \in transaction_rules : transaction_rules' = transaction_rules \ {r}
    /\ last' = NotBulk
    /\ probe' = NoProbe
    /\ UNCHANGED <<categories, transactions, imports, sqlite_sequence, uploadedFiles,
                   bankProfiles, imp, rowLog, atStart>>
    /\ markDirty
    /\ UNCHANGED <<accounts, banks, indexedDB, localStorage, saving, page>>

(***************************************************************************)
(* The user's category edit and the bulk re-application of rules.          *)
(***************************************************************************)
\* saveTransactionCategory(transactionId): the selected category (0: none)
saveTransactionCategory ==
    /\ \E t \in transactions, categoryId \in {0} \cup {c.id : c \in categories} :
          /\ t.manual_category = 1
             \/ Cardinality({u \in transactions : u.manual_category = 1}) < MaxManual
          /\ transactions' = (transactions \ {t}) \cup
                {[t EXCEPT !.category_id = categoryId, !.manual_category = 1]}
    /\ last' = NotBulk
    /\ probe' = NoProbe
    /\ UNCHANGED <<categories, transaction_rules, imports, sqlite_sequence, uploadedFiles,
                   bankProfiles, imp, rowLog, atStart>>
    /\ markDirty
    /\ UNCHANGED <<accounts, banks, indexedDB, localStorage, saving, page>>

\* toggleIgnore(transactionId, ignoredValue)
toggleIgnore ==
    /\ \E t \in transactions, ignoredValue \in {0, 1} :
          /\ t.ignored # ignoredValue
          /\ transactions' = (transactions \ {t}) \cup {[t EXCEPT !.ignored = ignoredValue]}
    /\ last' = NotBulk
    /\ probe' = NoProbe
    /\ UNCHANGED <<categories, transaction_rules, imports, sqlite_sequence, uploadedFiles,
                   bankProfiles, imp, rowLog, atStart>>
    /\ markDirty
    /\ UNCHANGED <<accounts, banks, indexedDB, localStorage, saving, page>>

\* variant of the bulk loop's update in which a matching ignore rule flips
\* the ignored flag
ReapplyRow_FlipsIgnored(t, rules, cats) ==
    LET currentCategoryName == CategoryName(cats, t.category_id)
        ruleResult == applyTransactionRules(t.description, currentCategoryName, rules, cats)
        newCategoryId == CategoryIdByName(cats, ruleResult.category)
    IN [t EXCEPT !.ignored = IF ruleResult.shouldIgnore THEN 1 - @ ELSE @,
                 !.category_id = IF ruleResult.category # currentCategoryName
                                    /\ newCategoryId # 0
                                 THEN newCategoryId ELSE @]
\* variant of the bulk loop's update that marks the row as manually set
ReapplyRow_SetsManual(t, rules, cats) ==
    LET currentCategoryName == CategoryName(cats, t.category_id)
        ruleResult == applyTransactionRules(t.description, currentCategoryName, rules, cats)
        newCategoryId == CategoryIdByName(cats, ruleResult.category)
    IN [t EXCEPT !.ignored = IF ruleResult.shouldIgnore THEN 1 ELSE @,
                 !.category_id = IF ruleResult.category # currentCategoryName
                                    /\ newCategoryId # 0
                                 THEN newCategoryId ELSE @,
                 !.manual_category = 1]
\* the body of transResult[0].values.forEach for one row that is not skipped
ReapplyRow(t, rules, cats) ==
    LET currentCategoryName == CategoryName(cats, t.category_id)
        ruleResult == applyTransactionRules(t.description, currentCategoryName, rules, cats)
        newCategoryId == CategoryIdByName(cats, ruleResult.category)
    IN [t EXCEPT !.ignored = IF ruleResult.shouldIgnore THEN 1 ELSE @,
                 !.category_id = IF ruleResult.category # currentCategoryName
                                    /\ newCategoryId # 0
                                 THEN newCategoryId ELSE @]
\* variant of the bulk loop without the skip of manual overrides
SkipsManual_Never(t) == FALSE

\* "if (manualCategory === 1) { skippedManual++; return; }"
SkipsManual(t) == t.manual_category = 1

applyRulesToExisting ==
    /\ IF Cardinality({r \in transaction_rules : r.enabled = 1}) = 0
       THEN /\ transactions' = transactions
            /\ last' = [NotBulk EXCEPT !.bulk = TRUE, !.before = transactions]
            /\ UNCHANGED <<_isDirty, _dirtyTimer>>
       ELSE /\ transactions' = {IF SkipsManual(t) THEN t
                                ELSE ReapplyRow(t, transaction_rules, categories) :
                                t \in transactions}
            /\ last' = [NotBulk EXCEPT
                          !.bulk = TRUE, !.before = transactions,
                          !.engineCalls =
                              {t.id : t \in {u \in transactions : ~SkipsManual(u)}}]
            /\ markDirty
    /\ probe' = NoProbe
    /\ UNCHANGED <<categories, transaction_rules, imports, sqlite_sequence, uploadedFiles,
                   bankProfiles, imp, rowLog, atStart>>
    /\ UNCHANGED <<accounts, banks, indexedDB, localStorage, saving, page>>

(***************************************************************************)
(* Claims on the import (Spec, SpecConcurrent).                            *)
(***************************************************************************)
LogEntries == Range(rowLog)
StoredFor(importId) == {t \in transactions : t.import_id = importId}

\* C2: a row whose mapped date normalizes to null is rejected: no transaction
\* is stored for it and it is not counted among the imported transactions of
\* its file.
C2_NullDateRowRejected ==
    \A e \in LogEntries : e.dateNull => ~e.stored /\ ~e.counted

\* C3: the imported count the code reports for a file (imports.transaction_count,
\* and totalImported of the call) equals the number of transactions actually
\* stored for that import.
C3_CountEqualsStored ==
    /\ \A m \in imports : m.transaction_count = Cardinality(StoredFor(m.id))
    /\ imp.pc = "awaitLoad" =>
          imp.totalImported = Cardinality({e \in DOMAIN rowLog : rowLog[e].stored})

\* C5: rejecting a row never aborts the import: every parsed row of a file is
\* processed exactly once, in order, each is either accepted (counted) or
\* rejected, and accepted + rejected is the number of parsed rows.
RowsOf(importId) == SelectSeq(rowLog, LAMBDA e : e.importId = importId)
C5_RejectionNeverAborts ==
    \A id \in {e.importId : e \in LogEntries} :
       LET es == RowsOf(id)
           accepted == Cardinality({k \in DOMAIN es : es[k].counted})
           rejected == Cardinality({k \in DOMAIN es : es[k].rejected})
       IN /\ Len(es) = es[1].of
          /\ \A k \in DOMAIN es : es[k].row = k /\ es[k].counted # es[k].rejected
          /\ accepted + rejected = es[1].of
          /\ \A m \in imports : m.id = id => m.transaction_count = accepted
\* a file in which a rejected row is followed by an accepted one
C5_Witness ==
    \E i, j \in DOMAIN rowLog :
       /\ i < j /\ rowLog[i].importId = rowLog[j].importId
       /\ rowLog[i].rejected /\ rowLog[j].counted /\ rowLog[j].stored

\* C6: accepted transactions reach storage in input row order: of two stored
\* rows i < j of one file, row i's transaction is inserted, and gets its id,
\* before row j's.
C6_StoredInRowOrder ==
    \A i, j \in DOMAIN rowLog :
       (/\ rowLog[i].importId = rowLog[j].importId
        /\ rowLog[i].row < rowLog[j].row
        /\ rowLog[i].stored /\ rowLog[j].stored)
       => /\ rowLog[i].txId < rowLog[j].txId
          /\ \A e \in {rowLog[i], rowLog[j]} :
                \E t \in transactions : /\ t.id = e.txId /\ t.import_id = e.importId
                                        /\ t.description = e.description
C6_Witness ==
    \E i, j \in DOMAIN rowLog :
       /\ rowLog[i].importId = rowLog[j].importId
       /\ rowLog[i].row < rowLog[j].row
       /\ rowLog[i].stored /\ rowLog[j].stored
       /\ rowLog[i].description # rowLog[j].description

\* C11: the files of a batch are processed strictly one after the other: the
\* rows of two files are never interleaved, and when the import record of the
\* next file has been created (the call waits for that file's text) every
\* earlier file of the call has had all its rows handed to storage and its
\* import count written, while nothing of the next file has been inserted.
C11_FilesSequential ==
    /\ \A i, j \in DOMAIN rowLog :
          i < j => /\ rowLog[i].file <= rowLog[j].file
                   /\ rowLog[i].file = rowLog[j].file
                         <=> rowLog[i].importId = rowLog[j].importId
    /\ imp.pc = "awaitText" =>
          /\ \A e \in LogEntries : e.file < imp.i /\ e.importId < imp.importId
          /\ StoredFor(imp.importId) = {}
          /\ \A m \in imports : m.id = imp.importId => m.transaction_count = 0
          /\ \A id \in {e.importId : e \in LogEntries} :
                LET es == RowsOf(id)
                IN /\ Len(es) = es[1].of
                   /\ \E m \in imports :
                         /\ m.id = id
                         /\ m.transaction_count =
                               Cardinality({k \in DOMAIN es : es[k].counted})
\* the second file of a batch is awaited after the first stored a row
C11_Witness ==
    /\ imp.pc = "awaitText" /\ imp.i = 1
    /\ \E e \in LogEntries : e.stored /\ e.file = 0

\* C13: a failed INSERT of an accepted transaction fails the batch: the call
\* does not get past its file loop to the success report when the insert of a
\* row it accepted failed.
C13_InsertFailureFailsBatch ==
    imp.pc = "awaitLoad" => \A e \in LogEntries : ~e.rejected => e.stored

\* C14: every transaction stored by an import has a non-null category: its
\* category_id names a row of the categories table (the rule's category, else
\* the default, else "Uncategorized").
C14_StoredCategoryNonNull ==
    \A t \in transactions :
       t.category_id # 0 /\ \E c \in categories : c.id = t.category_id

\* C27: one call of processUploadedFiles imports exactly the files that were
\* selected when it was called, each once and in order, whatever handlers run
\* while it waits for a file's text: the file it waits for is the next one of
\* that selection, and it reaches its end only after the last of them.
C27_ImportsSelectionAtCall ==
    /\ imp.pc = "awaitText" =>
          /\ imp.i < Len(atStart.files)
          /\ imp.file = atStart.files[imp.i + 1]
    /\ imp.pc = "awaitLoad" => imp.i = Len(atStart.files)

\* C10: a rule-set change made while an import call is in flight is not
\* observed by that import: every row of every file is resolved against the
\* rules (and categories) as they were when the call started.
C10_RulesAsAtStart ==
    \A e \in LogEntries :
       ~e.rejected =>
          e.ruleResult = applyTransactionRules(e.description, UNCATEGORIZED,
                                               atStart.rules, atStart.categories)


(***************************************************************************)
(* Spec: files are selected and imported, one call after the other, with   *)
(* the profile's date format; categories and rules are added between the   *)
(* calls.                                                                  *)
(***************************************************************************)
Next ==
    \/ (imp.pc = "idle" /\ handleFiles(FileSelections))
    \/ resetFileSelection
    \/ processUploadedFiles({<<>>})
    \/ ImportFile
    \/ ImportFileUnreadable
    \/ ImportDone
    \/ (imp.pc = "idle" /\ addCategory(CategoryNames, MaxCategories))
    \/ (imp.pc = "idle" /\ addRule(RuleForms, MaxRules))

Spec == Init /\ [][Next]_vars

(***************************************************************************)
(* SpecConcurrent: the import in flight, with the handlers that change the *)
(* rules and the categories running between its awaits.                    *)
(***************************************************************************)
NextConcurrent ==
    \/ (imp.pc = "idle" /\ handleFiles(FileSelections))
    \/ resetFileSelection
    \/ processUploadedFiles(DateFormatChoices)
    \/ ImportFile
    \/ ImportFileUnreadable
    \/ ImportDone
    \/ addCategory(CategoryNames, MaxCategories)
    \/ deleteCategory
    \/ addRule(RuleForms, MaxRules)
    \/ deleteRule

SpecConcurrent == Init /\ [][NextConcurrent]_vars

(***************************************************************************)
(* SpecBulk: one file is imported, the user edits categories and ignore    *)
(* flags, and the rules are re-applied in bulk.                            *)
(***************************************************************************)
MaxBulkImports == 1
File3 == [name |-> "c.csv",
          text |-> << <<DATE_ISO, D_CATFOOD, <<"7">> >>,
                     <<DATE_ISO, D_CATFOOD, <<"-", "5">> >> >>]
BulkSelections == {<<File2>>, <<File3>>}
BulkRuleForms == {f \in RuleForms : f.action = "categorize"} \cup
                 {[keyword |-> K_FOOD, action |-> "ignore", category |-> NoCategory,
                   caseSensitive |-> FALSE, priority |-> 0]}
NextBulk ==
    \/ (imp.pc = "idle" /\ uploadedFiles = <<>> /\ handleFiles(BulkSelections))
    \/ (sqlite_sequence.imports < MaxBulkImports /\ processUploadedFiles({<<>>}))
    \/ ImportFile
    \/ ImportDone
    \/ (imp.pc = "idle" /\ addCategory(CategoryNames, MaxCategories))
    \/ (imp.pc = "idle" /\ addRule(BulkRuleForms, MaxRules))
    \/ (imp.pc = "idle" /\ saveTransactionCategory)
    \/ (imp.pc = "idle" /\ toggleIgnore)
    \/ (imp.pc = "idle" /\ applyRulesToExisting)

SpecBulk == Init /\ [][NextBulk]_vars

\* C1: after applyRulesToExisting, every transaction whose manual_category is 1
\* has the category_id and the ignored value it had before, and the rule
\* engine was not invoked for it; every other transaction is updated as the
\* rules resolve its description.
C1_ManualOverrideProtected ==
    last.bulk =>
       \A t \in last.before :
          \E u \in transactions :
             /\ u.id = t.id
             /\ IF t.manual_category = 1
                THEN /\ u.category_id = t.category_id
                     /\ u.ignored = t.ignored
                     /\ t.id \notin last.engineCalls
                ELSE LET current == CategoryName(categories, t.category_id)
                         res == applyTransactionRules(t.description, current,
                                                      transaction_rules, categories)
                         target == CategoryIdByName(categories, res.category)
                     IN /\ u.ignored = IF res.shouldIgnore THEN 1 ELSE t.ignored
                        /\ u.category_id = IF res.category # current /\ target # 0
                                           THEN target ELSE t.category_id
\* a bulk run over a flagged transaction the rules would have changed, next to
\* an unflagged one they did change
C1_Witness ==
    /\ last.bulk
    /\ \E t \in last.before :
          /\ t.manual_category = 1
          /\ ReapplyRow(t, transaction_rules, categories) # t
    /\ \E t \in last.before : t.manual_category # 1 /\ t \notin transactions

(***************************************************************************)
(* SpecFlag: a file is imported, the user sets categories by hand, and the *)
(* rules are re-applied in bulk.                                           *)
(***************************************************************************)
NextFlag ==
    \/ (imp.pc = "idle" /\ uploadedFiles = <<>> /\ handleFiles({<<File3>>}))
    \/ (sqlite_sequence.imports < MaxBulkImports /\ processUploadedFiles({<<>>}))
    \/ ImportFile
    \/ ImportDone
    \/ (imp.pc = "idle" /\ addCategory(CategoryNames, MaxCategories))
    \/ (imp.pc = "idle" /\ addRule(BulkRuleForms, MaxRules))
    \/ (imp.pc = "idle" /\ saveTransactionCategory)
    \/ (imp.pc = "idle" /\ applyRulesToExisting)

SpecFlag == Init /\ [][NextFlag]_vars

\* C16: the manual_category flag of a transaction is 0 when an import creates
\* it, and the only step that sets the flag of a transaction is
\* saveTransactionCategory: neither an import nor the bulk re-application of
\* the rules ever does.
NewlyFlagged ==
    \E u \in transactions' :
       /\ u.manual_category = 1
       /\ ~\E t \in transactions : t.id = u.id /\ t.manual_category = 1
C16_FlagOnlyByUserEdit == [][NewlyFlagged => saveTransactionCategory]_vars
\* after a bulk re-application, a row flagged by the user's edit next to an
\* imported row whose flag is still 0
C16_Witness ==
    /\ last.bulk
    /\ \E t \in transactions : t.manual_category = 1
    /\ \E t \in transactions : t.manual_category = 0 /\ t.import_id # 0

\* C28: the bulk re-application is idempotent: run again right after a run,
\* the rules and the categories being the same, it leaves every transaction,
\* its category_id and its ignored flag, as the first run left it.
C28_BulkIdempotent == [][(last.bulk /\ last'.bulk) => transactions' = transactions]_vars
\* after a second run: nothing changed in a table where a run had something
\* to do, a row it looked at being ignored or categorized
C28_Witness ==
    /\ last.bulk /\ last.before = transactions
    /\ \E t \in transactions :
          /\ t.id \in last.engineCalls
          /\ t.category_id # 0
          /\ applyTransactionRules(t.description, NoCategory, transaction_rules,
                                   categories).category
                = CategoryName(categories, t.category_id)

(***************************************************************************)
(* SpecRules: the rule engine on the rules and categories the handlers     *)
(* leave in the database.                                                  *)
(***************************************************************************)
MaxEngineRules == 2
MaxEngineCategories == 2

K_DOT == <<"C", ".", "T">>
EngineCategoryNames == {"Food", "Fun"}
EngineRuleForms ==
    [keyword : {K_CAT}, action : {"categorize"}, category : EngineCategoryNames,
     caseSensitive : {FALSE}, priority : {5, 10}]
    \cup [keyword : {K_CAT}, action : {"ignore"}, category : {NoCategory},
          caseSensitive : {FALSE}, priority : {7}]
    \cup [keyword : {K_FOOD}, action : {"categorize"}, category : {"Fun"},
          caseSensitive : {FALSE}, priority : {10}]
EngineDescriptions == {D_CATFOOD, D_CATALOG}
EngineDefaults == {NoCategory, "Food"}
\* a database file holding two categories and a disabled rule
DatabaseFiles ==
    {[categories |-> {[id |-> 1, name |-> "Food"], [id |-> 2, name |-> "Fun"]},
      transaction_rules |->
          {[id |-> 1, keyword |-> K_CAT, action |-> "categorize", category_value |-> 1,
            case_sensitive |-> 0, enabled |-> 0, priority |-> 10]},
      transactions |-> {}, imports |-> {},
      sqlite_sequence |-> [categories |-> 2, transaction_rules |-> 1,
                           transactions |-> 0, imports |-> 0,
                           accounts |-> 0, banks |-> Len(DefaultProfiles)],
      accounts |-> {}, banks |-> Range(DefaultProfiles)]}

\* handleDatabaseImport: db = new SQL.Database(uint8Array), the awaited
\* saveDatabaseToIndexedDB() of it, and the reloads
handleDatabaseImport(files) ==
    /\ \E file \in files :
          /\ categories' = file.categories
          /\ transaction_rules' = file.transaction_rules
          /\ transactions' = file.transactions
          /\ imports' = file.imports
          /\ accounts' = file.accounts
          /\ banks' = file.banks
          /\ sqlite_sequence' = file.sqlite_sequence
          /\ indexedDB' = file
          /\ bankProfiles' = loadBankProfiles(file.banks)
    /\ last' = NotBulk
    /\ probe' = NoProbe
    /\ UNCHANGED <<uploadedFiles, imp, rowLog, atStart>>
    /\ UNCHANGED <<_isDirty, _dirtyTimer, localStorage, saving, page>>

\* one call applyTransactionRules(description, defaultCategory) on the
\* database: what it returned, and the pattern tests it made on the way
Observed(description, defaultCategory, st) ==
    [fn |-> "applyTransactionRules", description |-> description,
     defaultCategory |-> defaultCategory,
     result |-> [shouldIgnore |-> st.shouldIgnore, category |-> st.category],
     tested |-> st.tested]
CallApplyTransactionRules(descriptions, defaults) ==
    /\ \E description \in descriptions, defaultCategory \in defaults :
          probe' = Observed(description, defaultCategory,
                            RulesLoop(description, defaultCategory,
                                      transaction_rules, categories))
    /\ UNCHANGED <<categories, transaction_rules, transactions, imports, sqlite_sequence,
                   uploadedFiles, bankProfiles, imp, rowLog, atStart, last>>
    /\ UNCHANGED <<accounts, banks, _isDirty, _dirtyTimer, indexedDB, localStorage, saving,
                   page>>

NextRules ==
    \/ addCategory(EngineCategoryNames, MaxEngineCategories)
    \/ deleteCategory
    \/ addRule(EngineRuleForms, MaxEngineRules)
    \/ deleteRule
    \/ handleDatabaseImport(DatabaseFiles)
    \/ CallApplyTransactionRules(EngineDescriptions, EngineDefaults)

SpecRules == Init /\ [][NextRules]_vars

\* the rules the call of probe saw, by the database it ran on
EnabledRules == {r \in transaction_rules : r.enabled = 1}
\* the keyword occurs in the description at offset q, letter case aside when
\* the rule is not case sensitive
OccursAt(rule, description, q) ==
    /\ q + Len(rule.keyword) <= Len(description)
    /\ \A i \in 1..Len(rule.keyword) :
          IF rule.case_sensitive # 0 THEN rule.keyword[i] = description[q + i]
          ELSE ToLowerChar(rule.keyword[i]) = ToLowerChar(description[q + i])
\* the occurrence at q is flanked by the string's start or end or a non-word
\* character on both sides
FlankedAt(rule, description, q) ==
    /\ q = 0 \/ ~IsWordChar(description[q])
    /\ \/ q + Len(rule.keyword) = Len(description)
       \/ ~IsWordChar(description[q + Len(rule.keyword) + 1])
MatchesAsToken(rule, description) ==
    \E q \in 0..Len(description) :
       OccursAt(rule, description, q) /\ FlankedAt(rule, description, q)
\* the rule of a nonempty set that the priority puts first
Winner(S) == CHOOSE r \in S : \A q \in S : q.priority < r.priority
                                          \/ (q.priority = r.priority /\ r.id <= q.id)
MatchingRules(action, description) ==
    {r \in EnabledRules : r.action = action /\ MatchesAsToken(r, description)}
WithCategory(S) == {r \in S : \E c \in categories : c.id = r.category_value}
Called == probe.fn = "applyTransactionRules" /\ probe.description # <<>>

\* C7 (as stated): among the enabled categorize rules that match the
\* description, the category of the rule with the highest priority wins, ties
\* broken by the lowest rule id, whatever the order the rules were added in.
C7_HighestPriorityWins ==
    Called =>
       LET M == MatchingRules("categorize", probe.description)
       IN M # {} =>
             probe.result.category = CategoryName(categories, Winner(M).category_value)
\* C7 (amended): among the enabled categorize rules that match the description
\* and whose category exists, the category of the rule with the highest
\* priority wins, ties broken by the lowest rule id; when there is none the
\* result is the default category, or "Uncategorized".
C7_HighestPriorityWithCategoryWins ==
    Called =>
       LET M == WithCategory(MatchingRules("categorize", probe.description))
       IN probe.result.category =
             IF M # {} THEN CategoryName(categories, Winner(M).category_value)
             ELSE IF probe.defaultCategory # NoCategory THEN probe.defaultCategory
             ELSE UNCATEGORIZED
\* two matching categorize rules with different categories, the later added
\* one having the higher priority
C7_Witness ==
    /\ Called
    /\ \E r, q \in WithCategory(MatchingRules("categorize", probe.description)) :
          /\ r.id < q.id /\ r.priority < q.priority
          /\ r.category_value # q.category_value
          /\ probe.result.category = CategoryName(categories, q.category_value)

\* C8: the ignore slot and the categorize slot do not block each other: the
\* result ignores exactly when some enabled ignore rule matches, and when an
\* enabled ignore rule and an enabled categorize rule with a category both
\* match, the result is ignore = true with the category of the first matching
\* categorize rule, whatever the priorities of the two.
C8_SlotsIndependent ==
    Called =>
       LET I == MatchingRules("ignore", probe.description)
           M == WithCategory(MatchingRules("categorize", probe.description))
       IN /\ probe.result.shouldIgnore = (I # {})
          /\ (I # {} /\ M # {}) =>
                /\ probe.result.shouldIgnore
                /\ probe.result.category =
                      CategoryName(categories, Winner(M).category_value)
\* an ignore rule ahead of a categorize rule, both matching
C8_Witness ==
    /\ Called
    /\ \E i \in MatchingRules("ignore", probe.description),
          c \in WithCategory(MatchingRules("categorize", probe.description)) :
          /\ i.priority > c.priority
          /\ probe.result.shouldIgnore
          /\ probe.result.category = CategoryName(categories, c.category_value)
          /\ probe.result.category # probe.defaultCategory

(***************************************************************************)
(* SpecMatch: the pattern of one rule against a description.               *)
(***************************************************************************)
MatchKeywords ==
    {K_CAT, K_DOT, K_FOOD, <<"c", "a", "t">>, <<"T", "-", "F">>, <<"A", "+">>}
MatchDescriptions ==
    {<<>>, D_CATFOOD, D_CATALOG, K_DOT,
     <<"c", "a", "t">>, <<"B", "O", "B", "C", "A", "T">>,
     <<"A", "-", "C", "A", "T", ".">>, <<"C", "A", "T", "_", "1">>,
     <<"C", "A", "T", "S", " ", "C", "A", "T">>, <<"C", "A", "T", "-", "F", "O", "O", "D">>,
     <<"A", "+", " ", "c", "a", "t", "e", "r">>, <<"A", "A", "+">>}
\* the database after addCategory of Food and one addRule
InitMatch ==
    /\ categories = {[id |-> 1, name |-> "Food"]}
    /\ transaction_rules \in
          {{[id |-> 1, keyword |-> keyword, action |-> form.action,
             category_value |-> form.category_value, case_sensitive |-> caseSensitive,
             enabled |-> 1, priority |-> 0]} :
             keyword \in MatchKeywords, caseSensitive \in {0, 1},
             form \in {[action |-> "ignore", category_value |-> 0],
                       [action |-> "categorize", category_value |-> 1]}}
    /\ transactions = {}
    /\ imports = {}
    /\ sqlite_sequence = [categories |-> 1, transaction_rules |-> 1,
                          transactions |-> 0, imports |-> 0,
                          accounts |-> 0, banks |-> Len(DefaultProfiles)]
    /\ InitStorage
    /\ InitPage
    /\ probe = NoProbe

NextMatch == CallApplyTransactionRules(MatchDescriptions, {NoCategory})

SpecMatch == InitMatch /\ [][NextMatch]_vars

\* C9: a keyword matches a description only where it is flanked on both sides
\* by the start or end of the string or a non-word character: every
\* pattern.test the engine made answered true exactly when the keyword occurs
\* as a whole token.
C9_WordBoundaryMatch ==
    Called =>
       \A x \in probe.tested :
          \A r \in EnabledRules :
             r.id = x.id => (x.hit <=> MatchesAsToken(r, probe.description))
\* CAT tested against CATALOG: it occurs, inside a larger word, and does not match
C9_Witness ==
    /\ Called
    /\ probe.description = D_CATALOG
    /\ \E x \in probe.tested, r \in EnabledRules :
          /\ r.id = x.id /\ r.keyword = K_CAT /\ ~x.hit
          /\ OccursAt(r, probe.description, 0)

(***************************************************************************)
(* SpecMap: mapTransaction on one parsed row.                              *)
(***************************************************************************)
COL_C == <<"C">>
COL_B == <<"B">>
MapCells ==
    {Undefined, Null, Str(<<>>), Str(<<" ", " ">>), Str(<<"\t">>), Str(<<"0">>),
     Str(<<"-", "3", ".", "5">>), Str(<<"1", ",", "0", "0", "0">>), Str(<<"a", "b">>)}
MapDateCells == {Undefined, Str(<<>>), Str(DATE_15), Str(DATE_ISO)}
MapProfiles ==
    {DefaultProfiles[1], DefaultProfiles[2],
     [DefaultProfiles[1] EXCEPT !.creditColumn = COL_C, !.debitColumn = COL_B],
     [DefaultProfiles[2] EXCEPT !.creditColumn = <<"3">>, !.debitColumn = <<"4">>],
     [DefaultProfiles[1] EXCEPT !.amountColumn = <<>>]}
\* the row Papa hands over for the five cells: an object keyed by the header's
\* names, a cell that is absent having no key; or the array of the cells
MapRow(cells, hasHeader) ==
    LET names == <<COL_D, COL_T, COL_A, COL_C, COL_B>>
    IN IF hasHeader
       THEN [k \in {names[i] : i \in {j \in 1..5 : cells[j] # Undefined}} |->
               cells[CHOOSE i \in 1..5 : names[i] = k]]
       ELSE cells
MapInputs ==
    {[fn |-> "row", row |-> MapRow(<<d, Str(D_CATFOOD), a, c, b>>, profile.hasHeader),
      amountCell |-> a, creditCell |-> c, debitCell |-> b, dateCell |-> d,
      profile |-> profile, browser |-> browser] :
        d \in MapDateCells, a \in MapCells, c \in {Undefined, Str(<<>>), Str(<<"7">>)},
        b \in {Undefined, Str(<<"2">>)},
        profile \in MapProfiles, browser \in BrowserOutcomes}

InitMap == InitDatabase /\ probe \in MapInputs

CallMapTransaction ==
    /\ probe.fn = "row"
    /\ ReachesBrowser(probe.dateCell, probe.profile.dateFormat)
       \/ probe.browser = InvalidDate
    /\ probe' = [probe EXCEPT !.fn = "mapTransaction"] @@
                [result |-> mapTransaction(probe.row, probe.profile, 1, <<>>,
                                           probe.browser)]
    /\ UNCHANGED <<categories, transaction_rules, transactions, imports, sqlite_sequence,
                   uploadedFiles, bankProfiles, imp, rowLog, atStart, last>>
    /\ UNCHANGED <<accounts, banks, _isDirty, _dirtyTimer, indexedDB, localStorage, saving,
                   page>>

NextMap == CallMapTransaction

SpecMap == InitMap /\ [][NextMap]_vars

SingleAmountMode(profile) == profile.creditColumn = <<>> \/ profile.debitColumn = <<>>
\* absent, null, empty or made of white space only
BlankCell(cell) ==
    cell.t \in {"undefined", "null"} \/ \A i \in DOMAIN cell.s : IsSpace(cell.s[i])

\* C4: in single-amount-column mode, header or headerless, a row whose amount
\* cell is absent, null, empty or whitespace-only is rejected: mapTransaction
\* returns null, never a transaction with amount 0.
C4_BlankAmountRejected ==
    (/\ probe.fn = "mapTransaction"
     /\ SingleAmountMode(probe.profile)
     /\ BlankCell(probe.amountCell))
    => probe.result.isNull
\* a headerless row with a date and a white-space amount cell, rejected
C4_Witness ==
    /\ probe.fn = "mapTransaction"
    /\ SingleAmountMode(probe.profile) /\ ~probe.profile.hasHeader
    /\ probe.dateCell = Str(DATE_15)
    /\ probe.amountCell = Str(<<" ", " ">>)
    /\ probe.result.isNull

\* C15: a row for which no amount column yields a value is rejected in both
\* modes: with a profile that configures neither mode, and with a credit/debit
\* profile when the row's credit and debit cells are both blank or absent;
\* mapTransaction returns null, never a transaction of amount 0.
C15_NoAmountRejected ==
    (/\ probe.fn = "mapTransaction"
     /\ \/ (SingleAmountMode(probe.profile) /\ probe.profile.amountColumn = <<>>)
        \/ (/\ ~SingleAmountMode(probe.profile)
            /\ BlankCell(probe.creditCell) /\ BlankCell(probe.debitCell)))
    => probe.result.isNull

(***************************************************************************)
(* SpecConfig: the profile editor changes a profile between import calls.  *)
(***************************************************************************)
MaxConfigImports == 1
\* what the editor's inputs send: the amount column emptied, a date format
\* chosen from the select
ProfileEdits ==
    {[field |-> "amountColumn", value |-> <<>>],
     [field |-> "dateFormat", value |-> F_MDY]}
\* updateProfile(idx, field, value): the field is assigned as given
updateProfile(edits) ==
    /\ \E idx \in DOMAIN bankProfiles, e \in edits :
          /\ bankProfiles[idx][e.field] # e.value
          /\ bankProfiles' = [bankProfiles EXCEPT ![idx][e.field] = e.value]
          /\ banks' = saveBankProfileToDB([bankProfiles[idx] EXCEPT ![e.field] = e.value],
                                          banks)
    /\ markDirty
    /\ last' = NotBulk
    /\ probe' = NoProbe
    /\ UNCHANGED <<categories, transaction_rules, transactions, imports, sqlite_sequence,
                   uploadedFiles, imp, rowLog, atStart>>
    /\ UNCHANGED <<accounts, indexedDB, localStorage, saving, page>>

NextConfig ==
    \/ (imp.pc = "idle" /\ updateProfile(ProfileEdits))
    \/ (imp.pc = "idle" /\ handleFiles(FileSelections))
    \/ (sqlite_sequence.imports < MaxConfigImports /\ processUploadedFiles({<<>>}))
    \/ ImportFile
    \/ ImportDone

SpecConfig == Init /\ [][NextConfig]_vars

\* neither a single amount column nor a complete credit/debit pair
NoAmountMode(profile) ==
    /\ profile.amountColumn = <<>>
    /\ profile.creditColumn = <<>> \/ profile.debitColumn = <<>>

\* C12: an import call whose profile configures neither a single amount column
\* nor a complete credit/debit pair fails up front: while such a call is in
\* flight no import record of it exists and no row has been processed.
C12_ConfigErrorFailsUpFront ==
    (imp.pc # "idle" /\ NoAmountMode(imp.profile))
    => /\ \A m \in imports : m.id # imp.importId
       /\ rowLog = <<>>


(***************************************************************************)
(* SpecDate: normalizeDate on one string and one format, and on its own    *)
(* result with the format YYYY-MM-DD.                                      *)
(***************************************************************************)
DateStrings ==
    {<<"1", "5", "/", "0", "1", "/", "2", "0", "2", "4">>,
     <<"2", "0", "2", "4", "-", "0", "1", "-", "1", "5">>,
     <<"n", "/", "a">>,
     <<"0", "1", "/", "0", "1", "/", "5", "0">>,
     <<"0", "1", "/", "0", "1", "/", "4", "9">>,
     <<"1", "a", "/", "2", "/", "2", "0", "2", "4">>,
     <<"1", "/", "2">>,
     <<"1", "6", "-", "F", "e", "b", "-", "2", "6">>,
     <<"1", "6", "-", "F", "e", "b", "-", "2", "0", "2", "6">>,
     <<"1", "6", "-", "X", "y", "z", "-", "2", "6">>,
     <<"1", "6", "-", "F", "e", "b", "-", "1", "2", "3">>,
     <<"1", "5", "-", "0", "1", "-", "2", "0", "2", "4">>,
     <<"n", "o", "t", "-", "a", "-", "d", "a", "t", "e">>,
     <<" ", "3", "1", "/", "1", "2", "/", "9", "9", " ">>,
     <<"0", "1", "/", "-", "5", "/", "2", "0", "2", "4">>,
     <<"0", "1", "/", "0", "2", "/", "2", "0", "2", "4">>,
     <<"2", "0", "2", "4", "-", "1", "3", "-", "4", "5", "T", "1", "0", ":", "0", "0">>}
DateInputs ==
    {[fn |-> "date", dateStr |-> Str(s), format |-> f, browser |-> browser] :
        s \in DateStrings, f \in ExplicitFormats \cup {F_AUTO},
        browser \in BrowserOutcomes}

InitDate == InitDatabase /\ probe \in DateInputs

\* normalizeDate(dateStr, format)
CallNormalizeDate ==
    /\ probe.fn = "date"
    /\ ReachesBrowser(probe.dateStr, probe.format) \/ probe.browser = InvalidDate
    /\ probe' = [probe EXCEPT !.fn = "normalizeDate"] @@
                [result |-> normalizeDate(probe.dateStr, probe.format, probe.browser)]
    /\ UNCHANGED <<categories, transaction_rules, transactions, imports, sqlite_sequence,
                   uploadedFiles, bankProfiles, imp, rowLog, atStart, last>>
    /\ UNCHANGED <<accounts, banks, _isDirty, _dirtyTimer, indexedDB, localStorage, saving,
                   page>>
\* normalizeDate(result, "YYYY-MM-DD") on a result that is not null
CallNormalizeAgain ==
    /\ probe.fn = "normalizeDate"
    /\ probe.result # Null
    /\ probe' = [probe EXCEPT !.fn = "normalizeAgain"] @@
                [again |-> normalizeDate(probe.result, F_ISO, InvalidDate)]
    /\ UNCHANGED <<categories, transaction_rules, transactions, imports, sqlite_sequence,
                   uploadedFiles, bankProfiles, imp, rowLog, atStart, last>>
    /\ UNCHANGED <<accounts, banks, _isDirty, _dirtyTimer, indexedDB, localStorage, saving,
                   page>>

NextDate == CallNormalizeDate \/ CallNormalizeAgain

SpecDate == InitDate /\ [][NextDate]_vars

Normalized == probe.fn \in {"normalizeDate", "normalizeAgain"}
\* YYYY-MM-DD with the month in 01..12 and the day in 01..31
Canonical(d) ==
    /\ Len(d) = 10
    /\ d[5] = "-" /\ d[8] = "-"
    /\ \A i \in {1, 2, 3, 4, 6, 7, 9, 10} : IsDigit(d[i])
    /\ DigitsValue(SubSeq(d, 6, 7)) \in 1..12
    /\ DigitsValue(SubSeq(d, 9, 10)) \in 1..31

\* C17: every result of normalizeDate that is not null is a canonical date
\* string YYYY-MM-DD: a four-digit year, a two-digit month in 01..12 and a
\* two-digit day in 01..31, whatever the input string and the format.
C17_ResultCanonical ==
    (Normalized /\ probe.result # Null) => Canonical(probe.result.s)


\* a token made of digits only
NumericToken(part) == part # <<>> /\ AllDigits(part)
\* the input does not fit the explicit format: another number of tokens, a
\* token that is not purely numeric, or an unknown month abbreviation
Misfit(s, format) ==
    IF format \in {F_DMON2, F_DMON4}
    THEN LET p == Split(s, "-")
         IN \/ Len(p) # 3
            \/ ~NumericToken(p[1]) \/ ~NumericToken(p[3])
            \/ MonthOf(ToLowerCase(p[2])) = 0
    ELSE LET p == Split(s, IF Includes(format, "/") THEN "/" ELSE "-")
         IN Len(p) # 3 \/ \E i \in DOMAIN p : ~NumericToken(p[i])

\* C18: with an explicit format, an input whose number of tokens differs from
\* the format's, that has a token which is not purely numeric, or (DD-Mon
\* formats) whose month abbreviation is unknown, yields null.
C18_ExplicitModeStrict ==
    (/\ Normalized
     /\ probe.format \in ExplicitFormats
     /\ Misfit(Trim(probe.dateStr.s), probe.format))
    => probe.result = Null

\* the year a result starts with
ResultYear(d) == DigitsValue(DigitPrefix(d))

\* C19: a date produced through a format with a two-digit year (a YY token,
\* or DD-Mon-YY) has its year in 1950..2049: 00..49 become 2000..2049 and
\* 50..99 become 1950..1999.
C19_TwoDigitYearPivot ==
    (/\ Normalized
     /\ probe.format \in {F_DMY2, F_MDY2, F_DMON2}
     /\ probe.result # Null)
    => ResultYear(probe.result.s) \in 1950..2049

\* C20: on explicit formats normalizeDate is idempotent: a result that is not
\* null, normalized again with the format YYYY-MM-DD, is returned unchanged.
C20_Idempotent ==
    (probe.fn = "normalizeAgain" /\ probe.format \in ExplicitFormats)
    => probe.again = probe.result

\* ten characters of the shape dddd-dd-dd
IsoShape(d) ==
    /\ Len(d) = 10
    /\ \A i \in 1..10 : IF i \in {5, 8} THEN d[i] = "-" ELSE IsDigit(d[i])

\* C21: in auto mode an input that begins, after trimming, with YYYY-MM-DD
\* yields exactly those ten characters, whatever follows them.
C21_AutoIsoPrefix ==
    (/\ Normalized
     /\ probe.format = F_AUTO
     /\ Len(Trim(probe.dateStr.s)) >= 10
     /\ IsoShape(SubSeq(Trim(probe.dateStr.s), 1, 10)))
    => probe.result = Str(SubSeq(Trim(probe.dateStr.s), 1, 10))
\* an ISO date followed by a time of day
C21_Witness ==
    /\ probe.fn = "normalizeDate" /\ probe.format = F_AUTO
    /\ Len(probe.dateStr.s) > 10
    /\ IsoShape(SubSeq(probe.dateStr.s, 1, 10))
    /\ probe.result = Str(SubSeq(probe.dateStr.s, 1, 10))

\* dd/dd/yyyy whose first two numbers are both at most 12: day/month or
\* month/day
AmbiguousOrder(s) ==
    LET p == Split(s, "/")
    IN /\ Len(p) = 3
       /\ \A i \in 1..3 : NumericToken(p[i])
       /\ DigitsValue(p[1]) \in 1..12 /\ DigitsValue(p[2]) \in 1..12
       /\ DigitsValue(p[1]) # DigitsValue(p[2])

\* C22: auto mode fails closed: an input that is neither an ISO prefix nor a
\* DD-Mon-YY string and whose day/month order is ambiguous yields null.
C22_AutoFailsClosed ==
    (/\ Normalized
     /\ probe.format = F_AUTO
     /\ AmbiguousOrder(Trim(probe.dateStr.s)))
    => probe.result = Null

(***************************************************************************)
(* SpecScan: the rule engine on a table of several rules.                  *)
(***************************************************************************)
MaxScanRules == 3
ScanRuleForms ==
    [keyword : {K_CAT, K_FOOD}, action : {"categorize"}, category_value : {1, 2},
     priority : {5, 10}]
    \cup [keyword : {K_CAT, K_FOOD}, action : {"ignore"}, category_value : {0},
          priority : {5, 10}]
\* the database after addCategory of Food and Fun and as many addRule
InitScan ==
    /\ categories = {[id |-> 1, name |-> "Food"], [id |-> 2, name |-> "Fun"]}
    /\ \E table \in [1..MaxScanRules -> ScanRuleForms] :
          transaction_rules =
             {[id |-> i, keyword |-> table[i].keyword, action |-> table[i].action,
               category_value |-> table[i].category_value, case_sensitive |-> 0,
               enabled |-> 1, priority |-> table[i].priority] : i \in 1..MaxScanRules}
    /\ transactions = {}
    /\ imports = {}
    /\ sqlite_sequence = [categories |-> 2, transaction_rules |-> MaxScanRules,
                          transactions |-> 0, imports |-> 0,
                          accounts |-> 0, banks |-> Len(DefaultProfiles)]
    /\ InitStorage
    /\ InitPage
    /\ probe = NoProbe

NextScan == CallApplyTransactionRules({D_CATFOOD, D_CATALOG}, {NoCategory})

SpecScan == InitScan /\ [][NextScan]_vars

\* the scan of the whole sorted list, every row looked at, nothing ending it
RECURSIVE FullScan(_, _, _)
FullScan(rows, description, res) ==
    IF rows = <<>> THEN res
    ELSE LET rule == Head(rows)
             hit == MatchesAsToken(rule, description)
         IN FullScan(Tail(rows), description,
                IF hit /\ rule.action = "ignore" /\ ~res.ignoreRuleMatched
                THEN [res EXCEPT !.shouldIgnore = TRUE, !.ignoreRuleMatched = TRUE]
                ELSE IF hit /\ rule.action = "categorize" /\ ~res.categoryRuleMatched
                        /\ rule.category_name # NoCategory
                THEN [res EXCEPT !.category = rule.category_name,
                                 !.categoryRuleMatched = TRUE]
                ELSE res)

\* C23: the break of the rule loop is a pure optimization: the result of
\* applyTransactionRules equals that of scanning the whole sorted rule list
\* without stopping once both slots are filled.
C23_EarlyStopIsOptimization ==
    Called =>
       LET full == FullScan(RuleRows(transaction_rules, categories), probe.description,
                            [shouldIgnore |-> FALSE,
                             category |-> IF probe.defaultCategory # NoCategory
                                          THEN probe.defaultCategory ELSE UNCATEGORIZED,
                             ignoreRuleMatched |-> FALSE, categoryRuleMatched |-> FALSE])
       IN /\ probe.result.shouldIgnore = full.shouldIgnore
          /\ probe.result.category = full.category
\* the loop ended before a rule that matches the description was looked at
C23_Witness ==
    /\ Called
    /\ probe.result.shouldIgnore /\ probe.result.category # UNCATEGORIZED
    /\ \E r \in transaction_rules :
          /\ MatchesAsToken(r, probe.description)
          /\ \A t \in probe.tested : t.id # r.id

(***************************************************************************)
(* SpecCaught: applyTransactionRules with its try/catch: the rule query    *)
(* may throw (db.exec on a database without the table), and new RegExp     *)
(* throws a SyntaxError on a malformed source.                             *)
(***************************************************************************)
\* new RegExp(`(^|[^\w])${src}([^\w]|$)`) throws: reading src from the left,
\* depth counting the groups open in src, inClass a character class being
\* open and quantified the previous element being a quantifier. A ")" with no
\* group open, a "*" or "+" on a quantifier, and at the end a group or class
\* left open or a lone "\" (which then escapes the "(" of the closing group)
\* are syntax errors.
RECURSIVE RegExpThrowsFrom(_, _, _, _)
RegExpThrowsFrom(src, depth, inClass, quantified) ==
    IF src = <<>> THEN depth > 0 \/ inClass
    ELSE IF Head(src) = "\\"
         THEN Len(src) = 1 \/ RegExpThrowsFrom(Tail2(src, 3), depth, inClass, FALSE)
    ELSE IF inClass
         THEN RegExpThrowsFrom(Tail(src), depth, Head(src) # "]", FALSE)
    ELSE IF Head(src) = "[" THEN RegExpThrowsFrom(Tail(src), depth, TRUE, FALSE)
    ELSE IF Head(src) = "(" THEN RegExpThrowsFrom(Tail(src), depth + 1, FALSE, FALSE)
    ELSE IF Head(src) = ")"
         THEN depth = 0 \/ RegExpThrowsFrom(Tail(src), depth - 1, FALSE, FALSE)
    ELSE IF Head(src) \in {"*", "+"}
         THEN quantified \/ RegExpThrowsFrom(Tail(src), depth, FALSE, TRUE)
    ELSE RegExpThrowsFrom(Tail(src), depth, FALSE, Head(src) = "?")
RegExpThrows(src) == RegExpThrowsFrom(src, 0, FALSE, FALSE)

\* the call with its try block: what the catch caught, if anything, and the
\* value returned. The loop builds the pattern of each row it reaches, so a
\* malformed one throws when the loop gets to it.
applyTransactionRulesCaught(description, defaultCategory, rules, cats, queryThrows) ==
    LET fallbackCategory ==
            IF defaultCategory # NoCategory THEN defaultCategory ELSE UNCATEGORIZED
        fallback == [shouldIgnore |-> FALSE, category |-> fallbackCategory]
        st == RulesLoop(description, defaultCategory, rules, cats)
        reached == {r \in rules : \E t \in st.tested : t.id = r.id}
    IN IF description = <<>> THEN [caught |-> "none", result |-> fallback]
       ELSE IF queryThrows THEN [caught |-> "query", result |-> fallback]
       ELSE IF \E r \in reached : RegExpThrows(escapeKeyword(r.keyword))
            THEN [caught |-> "pattern", result |-> fallback]
       ELSE [caught |-> "none",
             result |-> [shouldIgnore |-> st.shouldIgnore, category |-> st.category]]

CaughtKeywords ==
    {K_CAT, K_DOT, <<"A", "+">>, <<"(">>, <<"C", ")">>, <<"[", "A">>, <<"A", "\\">>,
     <<"*", "*">>}
CaughtDescriptions ==
    {<<>>, D_CATFOOD, <<"A", "+">>, <<"x", " ", "(">>, <<"[", "A">>, <<"*", "*">>}
\* the database after addCategory of Food and one addRule
InitCaught ==
    /\ categories = {[id |-> 1, name |-> "Food"]}
    /\ transaction_rules \in
          {{[id |-> 1, keyword |-> keyword, action |-> form.action,
             category_value |-> form.category_value, case_sensitive |-> 0,
             enabled |-> 1, priority |-> 0]} :
             keyword \in CaughtKeywords,
             form \in {[action |-> "ignore", category_value |-> 0],
                       [action |-> "categorize", category_value |-> 1]}}
    /\ transactions = {}
    /\ imports = {}
    /\ sqlite_sequence = [categories |-> 1, transaction_rules |-> 1,
                          transactions |-> 0, imports |-> 0,
                          accounts |-> 0, banks |-> Len(DefaultProfiles)]
    /\ InitStorage
    /\ InitPage
    /\ probe = NoProbe

CallApplyTransactionRulesCaught ==
    /\ \E description \in CaughtDescriptions, defaultCategory \in EngineDefaults,
          queryThrows \in BOOLEAN :
          probe' = [fn |-> "applyTransactionRulesCaught", description |-> description,
                    defaultCategory |-> defaultCategory, queryThrows |-> queryThrows]
                   @@ applyTransactionRulesCaught(description, defaultCategory,
                                                  transaction_rules, categories,
                                                  queryThrows)
    /\ UNCHANGED <<categories, transaction_rules, transactions, imports, sqlite_sequence,
                   uploadedFiles, bankProfiles, imp, rowLog, atStart, last>>
    /\ UNCHANGED <<accounts, banks, _isDirty, _dirtyTimer, indexedDB, localStorage, saving,
                   page>>

NextCaught == CallApplyTransactionRulesCaught

SpecCaught == InitCaught /\ [][NextCaught]_vars

\* C24: the rule engine never fails its caller: no keyword makes the pattern
\* constructor throw, and when the rule query throws the call returns the
\* result of no rule having matched: not ignored, the default category or
\* "Uncategorized".
C24_EngineNeverFails ==
    probe.fn = "applyTransactionRulesCaught" =>
       /\ probe.caught # "pattern"
       /\ probe.caught = "query" =>
             /\ ~probe.result.shouldIgnore
             /\ probe.result.category =
                   IF probe.defaultCategory # NoCategory THEN probe.defaultCategory
                   ELSE UNCATEGORIZED
\* the query throws on a call whose rule, a keyword of metacharacters, matches
\* the description
C24_Witness ==
    /\ probe.fn = "applyTransactionRulesCaught"
    /\ probe.caught = "query"
    /\ \E r \in transaction_rules :
          /\ r.keyword = <<"*", "*">>
          /\ MatchesAsToken(r, probe.description)

(***************************************************************************)
(* Accounts and the import history.                                        *)
(***************************************************************************)
MaxAccounts == 1
MaxUndoImports == 2
AccountNames == {"Checking"}

\* addAccount: the account of the selected profile's bank; the INSERT fails on
\* UNIQUE(bank_id, account_name)
addAccount(names, max) ==
    /\ sqlite_sequence.accounts < max
    /\ \E profileIdx \in DOMAIN bankProfiles, accountName \in names :
          LET bankId == bankProfiles[profileIdx].id
          IN IF \E a \in accounts : a.bank_id = bankId /\ a.account_name = accountName
             THEN UNCHANGED <<accounts, sqlite_sequence, _isDirty, _dirtyTimer>>
             ELSE /\ accounts' = accounts \cup
                        {[id |-> sqlite_sequence.accounts + 1, bank_id |-> bankId,
                          account_name |-> accountName]}
                  /\ sqlite_sequence' = [sqlite_sequence EXCEPT !.accounts = @ + 1]
                  /\ markDirty
    /\ last' = NotBulk
    /\ probe' = NoProbe
    /\ UNCHANGED <<categories, transaction_rules, transactions, imports, banks,
                   uploadedFiles, bankProfiles, indexedDB, localStorage, saving, page,
                   imp, rowLog, atStart>>

\* the rows of loadImportHistory and of loadTransactions: the inner joins of
\* imports with accounts and banks
JoinedImports ==
    {i \in imports : \E a \in accounts : /\ a.id = i.account_id
                                         /\ \E b \in banks : b.id = a.bank_id}
ListedTransactions == {t \in transactions : \E i \in JoinedImports : i.id = t.import_id}
\* displayImportHistory: the counts that decide the buttons of an import's row
TotalInDb(importId) == Cardinality({t \in transactions : t.import_id = importId})
IgnoredCount(importId) ==
    Cardinality({t \in transactions : t.import_id = importId /\ t.ignored = 1})

\* undoImport(importId), from the button "Ignore All"
undoImport ==
    /\ \E i \in JoinedImports :
          /\ TotalInDb(i.id) # 0
          /\ IgnoredCount(i.id) # TotalInDb(i.id)
          /\ transactions' = {IF t.import_id = i.id THEN [t EXCEPT !.ignored = 1] ELSE t :
                              t \in transactions}
          /\ last' = [NotBulk EXCEPT !.before = transactions, !.undone = i.id]
    /\ markDirty
    /\ probe' = NoProbe
    /\ UNCHANGED <<categories, transaction_rules, imports, accounts, banks,
                   sqlite_sequence, uploadedFiles, bankProfiles, indexedDB, localStorage,
                   saving, page, imp, rowLog, atStart>>

\* reactivateImport(importId), from the button "Restore"
reactivateImport ==
    /\ \E i \in JoinedImports :
          /\ TotalInDb(i.id) # 0
          /\ IgnoredCount(i.id) = TotalInDb(i.id)
          /\ transactions' = {IF t.import_id = i.id THEN [t EXCEPT !.ignored = 0] ELSE t :
                              t \in transactions}
          /\ last' = IF last.undone = i.id
                     THEN [NotBulk EXCEPT !.before = last.before, !.restored = i.id]
                     ELSE NotBulk
    /\ markDirty
    /\ probe' = NoProbe
    /\ UNCHANGED <<categories, transaction_rules, imports, accounts, banks,
                   sqlite_sequence, uploadedFiles, bankProfiles, indexedDB, localStorage,
                   saving, page, imp, rowLog, atStart>>

(***************************************************************************)
(* SpecUndo: an account is added, a file is imported into it, the user     *)
(* ignores single transactions, and the import is ignored and restored.    *)
(***************************************************************************)
NextUndo ==
    \/ (imp.pc = "idle" /\ addAccount(AccountNames, MaxAccounts))
    \/ (imp.pc = "idle" /\ uploadedFiles = <<>> /\ handleFiles({<<File3>>}))
    \/ /\ sqlite_sequence.imports < MaxUndoImports
       /\ accounts # {}
       /\ processUploadedFiles({<<>>})
    \/ ImportFile
    \/ ImportDone
    \/ (imp.pc = "idle" /\ toggleIgnore)
    \/ (imp.pc = "idle" /\ undoImport)
    \/ (imp.pc = "idle" /\ reactivateImport)

SpecUndo == Init /\ [][NextUndo]_vars

\* C29: undoImport followed by reactivateImport on the same import is a round
\* trip: every transaction of the import has again the ignored value it had
\* before undoImport, so a transaction that was ignored on its own stays
\* ignored.
C29_UndoRestoreRoundTrip ==
    last.restored # 0 =>
       \A t \in transactions :
          t.import_id = last.restored =>
             \E b \in last.before : b.id = t.id /\ b.ignored = t.ignored

(***************************************************************************)
(* Deleting imports, accounts and bank profiles.                           *)
(***************************************************************************)
MaxIntegrityImports == 1

\* deleteImport(importId, filename), from the button "Delete"
deleteImport ==
    /\ \E i \in JoinedImports :
          /\ TotalInDb(i.id) # 0
          /\ transactions' = {t \in transactions : t.import_id # i.id}
          /\ imports' = {m \in imports : m.id # i.id}
    /\ markDirty
    /\ last' = NotBulk
    /\ probe' = NoProbe
    /\ UNCHANGED <<categories, transaction_rules, accounts, banks, sqlite_sequence,
                   uploadedFiles, bankProfiles, indexedDB, localStorage, saving, page,
                   imp, rowLog, atStart>>

\* deleteImportRecord(importId), from the button "Remove Record"
deleteImportRecord ==
    /\ \E i \in JoinedImports :
          /\ TotalInDb(i.id) = 0
          /\ imports' = {m \in imports : m.id # i.id}
    /\ markDirty
    /\ last' = NotBulk
    /\ probe' = NoProbe
    /\ UNCHANGED <<categories, transaction_rules, transactions, accounts, banks,
                   sqlite_sequence, uploadedFiles, bankProfiles, indexedDB, localStorage,
                   saving, page, imp, rowLog, atStart>>

\* clearDatabase
clearDatabase ==
    /\ transactions' = {}
    /\ imports' = {}
    /\ accounts' = {}
    /\ markDirty
    /\ last' = NotBulk
    /\ probe' = NoProbe
    /\ UNCHANGED <<categories, transaction_rules, banks, sqlite_sequence, uploadedFiles,
                   bankProfiles, indexedDB, localStorage, saving, page, imp, rowLog,
                   atStart>>

\* deleteProfile(idx): the banks row of the profile is deleted and the
\* profile is spliced out of bankProfiles
deleteProfile ==
    /\ \E idx \in DOMAIN bankProfiles :
          /\ banks' = {b \in banks : b.id # bankProfiles[idx].id}
          /\ bankProfiles' = SubSeq(bankProfiles, 1, idx - 1) \o
                             SubSeq(bankProfiles, idx + 1, Len(bankProfiles))
    /\ markDirty
    /\ last' = NotBulk
    /\ probe' = NoProbe
    /\ UNCHANGED <<categories, transaction_rules, transactions, imports, accounts,
                   sqlite_sequence, uploadedFiles, indexedDB, localStorage, saving, page,
                   imp, rowLog, atStart>>

(***************************************************************************)
(* SpecIntegrity: accounts are added, files are imported into account 1,   *)
(* and imports, the whole ledger and bank profiles are deleted.            *)
(***************************************************************************)
NextIntegrity ==
    \/ (imp.pc = "idle" /\ addAccount(AccountNames, MaxAccounts))
    \/ (imp.pc = "idle" /\ uploadedFiles = <<>> /\ handleFiles(BulkSelections))
    \/ /\ sqlite_sequence.imports < MaxIntegrityImports
       /\ \E a \in accounts : a.id = 1
       /\ processUploadedFiles({<<>>})
    \/ ImportFile
    \/ ImportDone
    \/ (imp.pc = "idle" /\ deleteImport)
    \/ (imp.pc = "idle" /\ deleteImportRecord)
    \/ (imp.pc = "idle" /\ clearDatabase)
    \/ (imp.pc = "idle" /\ deleteProfile)

SpecIntegrity == Init /\ [][NextIntegrity]_vars

\* C30: every stored transaction references an existing import, every import
\* an existing account and every account an existing bank row, so the joins
\* of loadTransactions list every stored transaction.
C30_ReferentialIntegrity ==
    /\ \A t \in transactions : \E i \in imports : i.id = t.import_id
    /\ \A i \in imports : \E a \in accounts : a.id = i.account_id
    /\ \A a \in accounts : \E b \in banks : b.id = a.bank_id
    /\ ListedTransactions = transactions

(***************************************************************************)
(* Persistence: the debounced save to IndexedDB, the backup written to     *)
(* localStorage at beforeunload, and the page load.                        *)
(***************************************************************************)
MaxPersistCategories == 2

\* db.export(): the tables of the database in memory
Export ==
    [categories |-> categories, transaction_rules |-> transaction_rules,
     transactions |-> transactions, imports |-> imports, accounts |-> accounts,
     banks |-> banks, sqlite_sequence |-> sqlite_sequence]
\* new SQL.Database() followed by createTables()
EmptyDatabase ==
    [categories |-> {}, transaction_rules |-> {}, transactions |-> {}, imports |-> {},
     accounts |-> {}, banks |-> {},
     sqlite_sequence |-> [categories |-> 0, transaction_rules |-> 0, transactions |-> 0,
                          imports |-> 0, accounts |-> 0, banks |-> 0]]

\* flushSave(): the flag is cleared and the timer cancelled before the save
\* is started; saveDatabaseToIndexedDB exports the database at the call
flushSave ==
    IF ~_isDirty
    THEN UNCHANGED <<_isDirty, _dirtyTimer, saving>>
    ELSE /\ _isDirty' = FALSE
         /\ _dirtyTimer' = FALSE
         /\ saving' = Append(saving, Export)

\* the handlers leave these alone
PageFrame ==
    <<categories, transaction_rules, transactions, imports, accounts, banks,
      sqlite_sequence, uploadedFiles, bankProfiles, imp, rowLog, atStart>>

\* the timeout set by markDirty elapses: flushSave()
DebounceElapsed ==
    /\ page = "open"
    /\ _dirtyTimer
    /\ flushSave
    /\ last' = NotBulk
    /\ probe' = NoProbe
    /\ UNCHANGED <<PageFrame, indexedDB, localStorage, page>>

\* visibilitychange with the document hidden: flushSave()
visibilitychange ==
    /\ page = "open"
    /\ flushSave
    /\ last' = NotBulk
    /\ probe' = NoProbe
    /\ UNCHANGED <<PageFrame, indexedDB, localStorage, page>>

\* beforeunload: the backup is written unless localStorage.setItem throws,
\* then flushSave(); the unload may still be cancelled
beforeunload ==
    /\ page = "open"
    /\ \E written \in BOOLEAN :
          localStorage' = IF written THEN Export ELSE localStorage
    /\ flushSave
    /\ last' = NotBulk
    /\ probe' = NoProbe
    /\ UNCHANGED <<PageFrame, indexedDB, page>>

\* transaction.oncomplete of the oldest save in flight: the record is put.
\* The save awaited by initSQLite lets init() go on.
SaveCompletes ==
    /\ saving # <<>>
    /\ indexedDB' = Head(saving)
    /\ saving' = Tail(saving)
    /\ page' = "open"
    /\ last' = NotBulk
    /\ probe' = NoProbe
    /\ UNCHANGED <<PageFrame, _isDirty, _dirtyTimer, localStorage>>

\* request.onerror of the oldest save in flight, or its put failing: nothing
\* is stored.  init() does not go on when it was awaiting this save.
SaveFails ==
    /\ saving # <<>>
    /\ saving' = Tail(saving)
    /\ last' = NotBulk
    /\ probe' = NoProbe
    /\ UNCHANGED <<PageFrame, _isDirty, _dirtyTimer, indexedDB, localStorage, page>>

\* the page goes away, after beforeunload or abruptly: its timer and the
\* saves it had in flight go with it, and its memory is not read again
Terminate ==
    /\ page # "closed"
    /\ page' = "closed"
    /\ saving' = <<>>
    /\ _isDirty' = FALSE
    /\ _dirtyTimer' = FALSE
    /\ last' = NotBulk
    /\ probe' = NoProbe
    /\ UNCHANGED <<PageFrame, indexedDB, localStorage>>

\* createDefaultProfiles on the tables data, when its banks table is empty
WithDefaultProfiles(data) ==
    IF data.banks # {} THEN data
    ELSE [data EXCEPT
            !.banks = {[DefaultProfiles[k] EXCEPT !.id = data.sqlite_sequence.banks + k] :
                       k \in DOMAIN DefaultProfiles},
            !.sqlite_sequence.banks = @ + Len(DefaultProfiles)]

\* the page load: initSQLite prefers the backup to the copy in IndexedDB,
\* removes it and saves it to IndexedDB; init() then loads the profiles
initSQLite ==
    /\ page = "closed"
    /\ LET restored == IF localStorage # Null THEN localStorage
                       ELSE IF indexedDB # Null THEN indexedDB ELSE EmptyDatabase
           data == WithDefaultProfiles(restored)
       IN /\ categories' = data.categories
          /\ transaction_rules' = data.transaction_rules
          /\ transactions' = data.transactions
          /\ imports' = data.imports
          /\ accounts' = data.accounts
          /\ banks' = data.banks
          /\ sqlite_sequence' = data.sqlite_sequence
          /\ bankProfiles' = loadBankProfiles(data.banks)
          /\ saving' = IF localStorage # Null THEN <<restored>> ELSE <<>>
          /\ page' = IF localStorage # Null THEN "loading" ELSE "open"
    /\ localStorage' = Null
    /\ uploadedFiles' = <<>>
    /\ imp' = IdleFrame
    /\ rowLog' = <<>>
    /\ atStart' = NoSnapshot
    /\ _isDirty' = FALSE
    /\ _dirtyTimer' = FALSE
    /\ last' = NotBulk
    /\ probe' = NoProbe
    /\ UNCHANGED indexedDB

(***************************************************************************)
(* SpecPersist: categories are added while the page is open; saves are     *)
(* started by the timer, by visibilitychange and by beforeunload, and      *)
(* succeed or fail; the page is terminated and loaded again.               *)
(***************************************************************************)
NextPersist ==
    \/ (page = "open" /\ addCategory(EngineCategoryNames, MaxPersistCategories))
    \/ DebounceElapsed
    \/ visibilitychange
    \/ beforeunload
    \/ SaveCompletes
    \/ SaveFails
    \/ Terminate
    \/ initSQLite

SpecPersist == Init /\ [][NextPersist]_vars

\* C25: at a page load a backup in localStorage is at least as recent as the
\* copy in IndexedDB: it holds every category the copy holds, so preferring
\* it discards nothing that was saved.
C25_BackupAtLeastAsRecent ==
    (page = "closed" /\ localStorage # Null /\ indexedDB # Null) =>
       indexedDB.categories \subseteq localStorage.categories

\* C26: while the page is open the dirty state is not cleared without a
\* successful save covering it: a category that is not in the copy in
\* IndexedDB is in a save in flight, or the dirty flag is set.
C26_DirtyUntilSaved ==
    page = "open" =>
       \A c \in categories :
          \/ indexedDB # Null /\ c \in indexedDB.categories
          \/ \E k \in DOMAIN saving : c \in saving[k].categories
          \/ _isDirty

====
